---- MODULE Spec2Model ----
(***************************************************************************)
(* Monument's best-first composition search                                *)
(* (monument/lib/src/search/best_first.rs and search/mod.rs).              *)
(*                                                                         *)
(* One `Search` value is built, then `Search::run` is called on it up to   *)
(* MaxRuns times.  Each run stores `false` into the caller's abort flag,   *)
(* builds the frontier from the start chunks and repeats the main loop of  *)
(* `search`: pop the best prefix, expand it, deliver a composition if one  *)
(* was completed, truncate the queue when memory runs out, poll the abort  *)
(* flag.  Another thread may set the abort flag at any moment.             *)
(*                                                                         *)
(* The operations of `CompPrefix` (search/prefix.rs: `starts`, `expand`,   *)
(* `cmp`) and of `Paths` (search/path.rs: `gc`, `estimate_heap_size`)      *)
(* follow section 4.5 of the design document.  Method-count and duffer     *)
(* bounds are further rejection tests of `expand` of the same shape as the *)
(* length test; the graphs below carry no method counts or duffers.        *)
(*                                                                         *)
(* The second part is the chunk graph of graph/src/graph.rs: the order on  *)
(* `Size`, `Graph::from_layout` over layouts of three bells, and the loop  *)
(* of `Graph::optimise` over the passes of section 4.3 of the design       *)
(* document, and `Graph::to_multipart`.  The third part evaluates          *)
(* functions of the libraries on their own: `num_leads_covered` and        *)
(* `Composition::rows` (monument/lib/src/composition.rs), the operations   *)
(* of `Mask` (bellframe/src/mask.rs), `LinkSet` and the link iterators of  *)
(* `Chunk` (monument/lib/src/graph/mod.rs), and the tree search of         *)
(* `Engine::recursive_compose` (src/engine.rs).  Each part has its own     *)
(* initial predicate and specification.                                    *)
(***************************************************************************)
EXTENDS Integers, Sequences, FiniteSets, Bags, TLC

(***************************************************************************)
(* Bounds of the model                                                     *)
(***************************************************************************)

\* query.num_comps ranges over 0..MaxNumComps
MaxNumComps == 2

\* config.mem_limit ranges over 0..MaxMemLimit and NoMemLimit
MaxMemLimit == 14

\* a memory limit that no run of the model reaches
NoMemLimit == 1000

\* How often Search::run is called on the same Search
MaxRuns == 2

\* best_first.rs:12 sets 10_000 and best_first.rs:13 sets 100_000; the periods
\* are scaled down so that the runs of the model reach polls and periodic
\* progress updates.
ITERS_BETWEEN_ABORT_CHECKS == 2

ITERS_BETWEEN_PROGRESS_UPDATES == 4

\* `prefix_size` (best_first.rs:26) in abstract units of memory
PrefixSize == 2

\* heap bytes of one node of the path tree, in the same units
PathNodeSize == 1

(***************************************************************************)
(* The graphs, queries and configurations the searches are run on          *)
(***************************************************************************)

\* LinkSide::StartOrEnd; chunks are numbered from 1
End == 0

\* the parent of the first node of a path
Root == 0

\* a link to another chunk, or to the end
Lk(to, rot) == [to |-> to, rot |-> rot]

\* No chunks at all: what is left of a graph that was proven infeasible.
EmptyGraph ==
    [ chunks   |-> {},
      starts   |-> << >>,
      succ     |-> << >>,
      len      |-> << >>,
      score    |-> << >>,
      false    |-> << >>,
      lb_to    |-> << >>,
      required |-> {},
      parts    |-> 1,
      min_len  |-> 0,
      max_len  |-> 4 ]

\* One chunk that starts and ends a composition.
OneChunkGraph ==
    [ chunks   |-> {1},
      starts   |-> << Lk(1, 0) >>,
      succ     |-> << << Lk(End, 0) >> >>,
      len      |-> << 2 >>,
      score    |-> << 1 >>,
      false    |-> << {1} >>,
      lb_to    |-> << 0 >>,
      required |-> {},
      parts    |-> 1,
      min_len  |-> 1,
      max_len  |-> 4 ]

\* Three chunks of equal length and score: every prefix of the same length
\* has the same score density, so the order of expansion rests on the
\* tie-break.
TiesGraph ==
    [ chunks   |-> {1, 2, 3},
      starts   |-> << Lk(1, 0) >>,
      succ     |-> << << Lk(2, 0), Lk(3, 0) >>,
                      << Lk(End, 0), Lk(3, 0) >>,
                      << Lk(End, 0), Lk(2, 0) >> >>,
      len      |-> << 1, 1, 1 >>,
      score    |-> << 1, 1, 1 >>,
      false    |-> << {1}, {2}, {3} >>,
      lb_to    |-> << 1, 0, 0 >>,
      required |-> {},
      parts    |-> 1,
      min_len  |-> 2,
      max_len  |-> 3 ]

\* Four chunks, all linked to each other, two starts, different lengths and
\* scores, chunk 4 false against chunk 3, chunk 2 required.
DenseGraph ==
    [ chunks   |-> {1, 2, 3, 4},
      starts   |-> << Lk(1, 0), Lk(2, 0) >>,
      succ     |-> << << Lk(2, 0), Lk(3, 0), Lk(4, 0), Lk(End, 0) >>,
                      << Lk(1, 0), Lk(3, 0), Lk(4, 0), Lk(End, 0) >>,
                      << Lk(1, 0), Lk(2, 0), Lk(4, 0), Lk(End, 0) >>,
                      << Lk(1, 0), Lk(2, 0), Lk(3, 0), Lk(End, 0) >> >>,
      len      |-> << 1, 2, 1, 2 >>,
      score    |-> << 0, 3, 1, 2 >>,
      false    |-> << {1}, {2}, {3, 4}, {3, 4} >>,
      lb_to    |-> << 0, 0, 0, 0 >>,
      required |-> {2},
      parts    |-> 1,
      min_len  |-> 3,
      max_len  |-> 5 ]

\* A two-part graph: the links carry part-head rotations, and a
\* composition must come back to rotation 0.
TwoPartGraph ==
    [ chunks   |-> {1, 2, 3},
      starts   |-> << Lk(1, 0) >>,
      succ     |-> << << Lk(2, 1), Lk(3, 0), Lk(End, 0) >>,
                      << Lk(3, 1), Lk(1, 0), Lk(End, 0) >>,
                      << Lk(2, 0), Lk(1, 1), Lk(End, 1) >> >>,
      len      |-> << 2, 2, 2 >>,
      score    |-> << 1, 0, 2 >>,
      false    |-> << {1}, {2}, {3} >>,
      lb_to    |-> << 0, 0, 0 >>,
      required |-> {},
      parts    |-> 2,
      min_len  |-> 2,
      max_len  |-> 6 ]

\* Five chunks of length 1, three starts, scores with ties, and a length
\* bound of three chunks: the frontier grows to many prefixes.
WideGraph ==
    [ chunks   |-> {1, 2, 3, 4, 5},
      starts   |-> << Lk(1, 0), Lk(3, 0), Lk(5, 0) >>,
      succ     |-> << << Lk(2, 0), Lk(3, 0), Lk(4, 0), Lk(5, 0) >>,
                      << Lk(End, 0), Lk(1, 0), Lk(3, 0), Lk(4, 0), Lk(5, 0) >>,
                      << Lk(1, 0), Lk(2, 0), Lk(4, 0), Lk(5, 0) >>,
                      << Lk(1, 0), Lk(2, 0), Lk(3, 0), Lk(5, 0), Lk(End, 0) >>,
                      << Lk(1, 0), Lk(2, 0), Lk(3, 0), Lk(4, 0) >> >>,
      len      |-> << 1, 1, 1, 1, 1 >>,
      score    |-> << 1, 2, 1, 0, 2 >>,
      false    |-> << {1}, {2}, {3}, {4}, {5} >>,
      lb_to    |-> << 1, 0, 1, 0, 1 >>,
      required |-> {},
      parts    |-> 1,
      min_len  |-> 2,
      max_len  |-> 3 ]

\* A three-part graph whose start link and end links carry rotations: the
\* paths 1 and 1,2 come back to rotation 0, the path 1,3 does not.
ThreePartGraph ==
    [ chunks   |-> {1, 2, 3},
      starts   |-> << Lk(1, 1) >>,
      succ     |-> << << Lk(2, 1), Lk(3, 2), Lk(End, 2) >>,
                      << Lk(End, 1) >>,
                      << Lk(End, 1) >> >>,
      len      |-> << 1, 1, 1 >>,
      score    |-> << 1, 1, 2 >>,
      false    |-> << {1}, {2}, {3} >>,
      lb_to    |-> << 0, 0, 0 >>,
      required |-> {},
      parts    |-> 3,
      min_len  |-> 1,
      max_len  |-> 2 ]

Graphs ==
    { EmptyGraph, OneChunkGraph, TiesGraph, DenseGraph, TwoPartGraph, WideGraph,
      ThreePartGraph }

MemLimits == (0 .. MaxMemLimit) \cup { NoMemLimit }

(***************************************************************************)
(* State                                                                   *)
(***************************************************************************)

VARIABLES
    search_data,  \* the Search: graph, query and config (fixed by Search::new)
    abort_flag,   \* the caller's AtomicBool
    pc,           \* where the worker is
    frontier,     \* BinaryHeap<CompPrefix>, as the set of its elements
    paths,        \* the Paths arena: [nodes, next]
    next_seq,     \* insertion sequence number of the next prefix
    iter_count,   \* best_first.rs:28
    num_comps,    \* best_first.rs:29
    updates,      \* what update_fn has been called with in this run, in order
    pops,         \* history: prefixes popped and expanded in this run
    truncs,       \* history: queue truncations in this run
    last,         \* history: what the last iteration of the loop did
    run_no,       \* history: how many times Search::run has been called
    prev_runs     \* history: the outcome of each run that has returned

\* The state of graph/src/graph.rs: Graph::from_layout and Graph::optimise
VARIABLES
    layout,          \* from_layout's `layout` argument
    max_length,      \* from_layout's `max_length` argument
    gpc,             \* where the graph builder or the optimiser is
    expanded_nodes,  \* graph.rs:369, NodeId -> [segment, distance]
    end_nodes,       \* graph.rs:371
    build_frontier,  \* graph.rs:375, the heap as the bag of its items
    start_nodes,     \* graph.rs:380
    source_graph,    \* the Graph: [nodes, start_nodes, end_nodes, num_parts]
    passes,          \* optimise's `passes` argument
    limit,           \* optimise_with_iter_limit's `limit` argument
    last_size,       \* graph.rs:120
    new_size,        \* graph.rs:125
    ordering,        \* what partial_cmp returned (graph.rs:128)
    rounds_run,      \* how many times the loop of graph.rs:122 has run its body
    ghist            \* history of the builder and of the optimiser

\* The state of Graph::to_multipart
VARIABLES
    part_heads,      \* graph.rs:540
    class_by_id,     \* graph.rs:576, NodeId -> Option<Equiv>
    class_todo,      \* the ids without a class that the loop of graph.rs:613 has yet to reach
    multipart        \* what to_multipart returns

multi_vars == << part_heads, class_by_id, class_todo, multipart >>

\* The state of a library function or object that is evaluated on its own
\* (composition.rs, bellframe/src/mask.rs, graph/mod.rs, src/engine.rs)
VARIABLES
    fpc,             \* which function is under evaluation, and whether it has returned
    fargs,           \* its arguments, or the object its methods are called on
    fret             \* what it returned; for an object, the record of the last call

lib_vars == << fpc, fargs, fret >>

\* no library function is under evaluation
LibIdle ==
    /\ fpc = "off"
    /\ fargs = << >>
    /\ fret = << >>

graph_vars == << layout, max_length, gpc, expanded_nodes, end_nodes, build_frontier,
                start_nodes, source_graph, passes, limit, last_size, new_size,
                ordering, rounds_run, ghist, multi_vars, lib_vars >>

\* to_multipart has not been called
MultiIdle ==
    /\ part_heads = << >>
    /\ class_by_id = << >>
    /\ class_todo = {}
    /\ multipart = << >>

vars == << search_data, abort_flag, pc, frontier, paths, next_seq, iter_count,
           num_comps, updates, pops, truncs, last, run_no, prev_runs, graph_vars >>

\* No graph is being built, optimised or turned into a multi-part graph
BuilderIdle ==
    /\ layout = << >>
    /\ max_length = 0
    /\ gpc = "off"
    /\ expanded_nodes = << >>
    /\ end_nodes = << >>
    /\ build_frontier = EmptyBag
    /\ start_nodes = << >>
    /\ source_graph = << >>
    /\ passes = << >>
    /\ limit = 0
    /\ last_size = << >>
    /\ new_size = << >>
    /\ ordering = "None"
    /\ rounds_run = 0
    /\ ghist = << >>
    /\ MultiIdle

\* No graph is being built and no library function is under evaluation
GraphIdle == BuilderIdle /\ LibIdle

graph == search_data.graph

query == search_data.query

config == search_data.config

(***************************************************************************)
(* Paths: the shared prefix tree of the paths                              *)
(***************************************************************************)

EmptyPaths == [ nodes |-> << >>, next |-> 1 ]

\* Paths::add: a new node below `parent`
PathsAdd(ps, parent, chunk, link) ==
    [ nodes |-> ps.nodes @@ (ps.next :> [ parent |-> parent, chunk |-> chunk, link |-> link ]),
      next  |-> ps.next + 1 ]

\* The nodes on the way from `head` up to the root.  A head that is not in
\* the arena any more reaches nothing.
RECURSIVE Reachable(_, _)
Reachable(nodes, head) ==
    IF head = Root \/ head \notin DOMAIN nodes
    THEN {}
    ELSE { head } \cup Reachable(nodes, nodes[head].parent)

\* Walking from `head` to the root: the (chunk, link) entries, root first.
\* A missing node shows as the entry << -1, -1 >>.
RECURSIVE PathOf(_, _)
PathOf(nodes, head) ==
    IF head = Root THEN << >>
    ELSE IF head \notin DOMAIN nodes THEN << << -1, -1 >> >>
    ELSE Append(PathOf(nodes, nodes[head].parent), << nodes[head].chunk, nodes[head].link >>)

PathChunks(nodes, head) == { nodes[n].chunk : n \in Reachable(nodes, head) }

\* Paths::gc: keep the nodes reachable from the live heads
PathsGc(ps, heads) ==
    LET live == UNION { Reachable(ps.nodes, h) : h \in heads }
    IN  [ nodes |-> [ n \in live |-> ps.nodes[n] ], next |-> ps.next ]

\* Paths::estimate_heap_size
EstimateHeapSize(ps) == Cardinality(DOMAIN ps.nodes) * PathNodeSize

(***************************************************************************)
(* CompPrefix                                                              *)
(***************************************************************************)

\* Ord for CompPrefix: score density (score / length, compared by cross
\* multiplication; lengths are positive), then the insertion sequence
\* number, the earlier prefix being the greater.
Cmp(a, b) ==
    LET da == a.score * b.length
        db == b.score * a.length
    IN  IF da > db THEN "Greater"
        ELSE IF da < db THEN "Less"
        ELSE IF a.seq < b.seq THEN "Greater"
        ELSE IF a.seq > b.seq THEN "Less"
        ELSE "Equal"

\* What CompPrefix::starts and CompPrefix::expand hand back: the frontier,
\* the paths, the next sequence number, and the composition that was
\* completed (a sequence of length 0 or 1, for Option)
Acc(fr, ps, sq, comp) == [ frontier |-> fr, paths |-> ps, seq |-> sq, comp |-> comp ]

\* how many members of the set of indices S come before i
Rank(S, i) == Cardinality({ j \in S : j < i })

\* the start links whose chunk fits into the length bound
StartsTaken(g) == { i \in 1 .. Len(g.starts) : g.len[g.starts[i].to] <= g.max_len }

\* CompPrefix::starts: one prefix per start link, holding the start chunk;
\* the k-th prefix pushed gets path node k and sequence number k - 1
Starts(g) ==
    LET taken == StartsTaken(g)
        at(n) == CHOOSE i \in taken : Rank(taken, i) = n - 1
    IN  Acc({ [ path_head |-> 1 + Rank(taken, i),
                score     |-> g.score[g.starts[i].to],
                length    |-> g.len[g.starts[i].to],
                rot       |-> g.starts[i].rot % g.parts,
                seq       |-> Rank(taken, i) ] : i \in taken },
            [ nodes |-> [ n \in 1 .. Cardinality(taken) |->
                            [ parent |-> Root, chunk |-> g.starts[at(n)].to, link |-> at(n) ] ],
              next  |-> 1 + Cardinality(taken) ],
            Cardinality(taken),
            << >>)

\* the successor links of the chunk at the head of the prefix's path
SuccLinks(g, nodes, p) == g.succ[nodes[p.path_head].chunk]

\* an end link that is taken whatever the rotation of the part head
CompletesAnyRotation(g, nodes, p, i) ==
    LET l == SuccLinks(g, nodes, p)[i]
    IN  /\ l.to = End
        /\ p.length >= g.min_len
        /\ p.length <= g.max_len
        /\ g.required \subseteq PathChunks(nodes, p.path_head)

\* an end link that is taken whatever the length of the prefix
CompletesAnyLength(g, nodes, p, i) ==
    LET l == SuccLinks(g, nodes, p)[i]
    IN  /\ l.to = End
        /\ (p.rot + l.rot) % g.parts = 0
        /\ g.required \subseteq PathChunks(nodes, p.path_head)

\* step 4 of the expansion: link i ends the composition
Completes(g, nodes, p, i) ==
    LET l == SuccLinks(g, nodes, p)[i]
    IN  /\ l.to = End
        /\ (p.rot + l.rot) % g.parts = 0
        /\ p.length >= g.min_len
        /\ p.length <= g.max_len
        /\ g.required \subseteq PathChunks(nodes, p.path_head)

\* an extension that leaves out the truth check
ExtendsUnchecked(g, nodes, p, i) ==
    LET l == SuccLinks(g, nodes, p)[i]
    IN  /\ l.to # End
        /\ p.length + g.len[l.to] <= g.max_len
        /\ p.length + g.len[l.to] + g.lb_to[l.to] <= g.max_len

\* steps 2 and 3 of the expansion: link i leads to a chunk that fits into
\* the length bound and is true against the path
Extends(g, nodes, p, i) ==
    LET l == SuccLinks(g, nodes, p)[i]
    IN  /\ l.to # End
        /\ p.length + g.len[l.to] <= g.max_len
        /\ g.false[l.to] \cap PathChunks(nodes, p.path_head) = {}
        /\ p.length + g.len[l.to] + g.lb_to[l.to] <= g.max_len

\* step 5 of the expansion: the prefix extended over link l
Extension(g, p, l, node, sq) ==
    [ path_head |-> node,
      score     |-> p.score + g.score[l.to],
      length    |-> p.length + g.len[l.to],
      rot       |-> (p.rot + l.rot) % g.parts,
      seq       |-> sq ]

\* CompPrefix::expand: the successor links are taken in order; the k-th
\* extension pushed gets the k-th new path node and sequence number.  It
\* hands back at most one composition (best_first.rs:46-49); a chunk of the
\* graphs above has at most one link to the end.
Expand(g, p, ps, fr, sq) ==
    LET links == SuccLinks(g, ps.nodes, p)
        ext   == { i \in 1 .. Len(links) : Extends(g, ps.nodes, p, i) }
        ends  == { i \in 1 .. Len(links) : Completes(g, ps.nodes, p, i) }
        at(n) == CHOOSE i \in ext : Rank(ext, i) = n - ps.next
    IN  Acc(fr \cup { Extension(g, p, links[i], ps.next + Rank(ext, i), sq + Rank(ext, i)) :
                         i \in ext },
            [ nodes |-> ps.nodes @@
                          [ n \in ps.next .. ps.next + Cardinality(ext) - 1 |->
                              [ parent |-> p.path_head, chunk |-> links[at(n)].to, link |-> at(n) ] ],
              next  |-> ps.next + Cardinality(ext) ],
            sq + Cardinality(ext),
            IF ends = {} THEN << >>
            ELSE LET i == CHOOSE k \in ends : \A m \in ends : m <= k
                 IN  << [ path   |-> Append(PathOf(ps.nodes, p.path_head), << End, i >>),
                          length |-> p.length,
                          score  |-> p.score,
                          rot    |-> (p.rot + links[i].rot) % g.parts ] >>)

(***************************************************************************)
(* best_first.rs                                                           *)
(***************************************************************************)

\* A pop that goes by the score density alone
PopCandidatesByDensity(fr) ==
    { p \in fr : \A q \in fr : q.score * p.length <= p.score * q.length }

\* BinaryHeap::pop (best_first.rs:45): a greatest element; which one among
\* equal elements is up to the heap
PopCandidates(fr) == { p \in fr : \A q \in fr : Cmp(q, p) # "Greater" }

\* chunks.sort_by(|a, b| b.cmp(a)): highest first.  The place of a prefix
\* is one more than the number of prefixes ordered above it.
SortHighestFirst(S) ==
    [ i \in 1 .. Cardinality(S) |->
        CHOOSE x \in S : Cardinality({ y \in S : Cmp(y, x) = "Greater" }) = i - 1 ]

\* truncate_queue (best_first.rs:122)
TruncateQueue(len, queue) ==
    LET chunks  == SortHighestFirst(queue)
        drained == IF len < Len(chunks) THEN SubSeq(chunks, 1, len) ELSE chunks
    IN  { drained[i] : i \in 1 .. Len(drained) }

\* best_first.rs:60
MemUsage(fr, ps) == Cardinality(fr) * PrefixSize + EstimateHeapSize(ps)

\* A memory check that lets the usage reach the limit
OverMemLimitStrict(mem_usage, mem_limit) == mem_usage > mem_limit

\* best_first.rs:61
OverMemLimit(mem_usage, mem_limit) == mem_usage >= mem_limit

\* Live heads that leave out the best prefix
LiveHeadsButBest(fr) == { p.path_head : p \in fr \ PopCandidates(fr) }

\* best_first.rs:64: the heads handed to Paths::gc
LiveHeads(fr) == { p.path_head : p \in fr }

\* best_first.rs:104
MaxLength(S) ==
    IF S = {} THEN 0 ELSE CHOOSE m \in { p.length : p \in S } : \A q \in S : q.length <= m

\* best_first.rs:103: the sum of the lengths, summed length by length
RECURSIVE SumUpTo(_, _)
SumUpTo(S, k) ==
    IF k = 0 THEN 0
    ELSE k * Cardinality({ p \in S : p.length = k }) + SumUpTo(S, k - 1)

SumLengths(S) == SumUpTo(S, MaxLength(S))

\* A progress update that drops the truncating_queue argument
ProgressUpdateNeverTruncating(fr, ic, nc, truncating_queue) ==
    [ type             |-> "Progress",
      iter_count       |-> ic,
      num_comps        |-> nc,
      queue_len        |-> Cardinality(fr),
      avg_length       |-> IF fr = {} THEN << 0, 1 >> ELSE << SumLengths(fr), Cardinality(fr) >>,
      max_length       |-> MaxLength(fr),
      truncating_queue |-> FALSE ]

\* send_progress_update (best_first.rs:93): avg_length is kept as the
\* fraction total_len / queue_len, and is 0 for an empty frontier
ProgressUpdate(fr, ic, nc, truncating_queue) ==
    [ type             |-> "Progress",
      iter_count       |-> ic,
      num_comps        |-> nc,
      queue_len        |-> Cardinality(fr),
      avg_length       |-> IF fr = {} THEN << 0, 1 >> ELSE << SumLengths(fr), Cardinality(fr) >>,
      max_length       |-> MaxLength(fr),
      truncating_queue |-> truncating_queue ]

CompUpdate(comp) == [ type |-> "Comp", comp |-> comp ]

AbortingUpdate == [ type |-> "Aborting" ]

\* best_first.rs:53
EnoughComps(nc, wanted) == nc = wanted

\* An abort check that reads the flag the wrong way round
AbortPollInverted(ic, flag) == ic % ITERS_BETWEEN_ABORT_CHECKS = 0 /\ ~flag

\* best_first.rs:71
AbortPoll(ic, flag) == ic % ITERS_BETWEEN_ABORT_CHECKS = 0 /\ flag

\* best_first.rs:77
ProgressDue(ic) == ic % ITERS_BETWEEN_PROGRESS_UPDATES = 0

NoIteration ==
    [ popped |-> << >>, comp |-> << >>, broke |-> "no", mem_usage |-> 0,
      truncated |-> FALSE, before |-> {}, nodes_before |-> << >>,
      polled |-> FALSE, flag |-> FALSE ]

(***************************************************************************)
(* Init: the state after Search::new                                       *)
(***************************************************************************)

Init ==
    /\ search_data \in
          { [ graph  |-> g,
              query  |-> [ num_comps |-> n ],
              config |-> [ mem_limit |-> m ] ] :
            g \in Graphs, n \in 0 .. MaxNumComps, m \in MemLimits }
    /\ abort_flag \in BOOLEAN
    /\ pc = "idle"
    /\ frontier = {}
    /\ paths = EmptyPaths
    /\ next_seq = 0
    /\ iter_count = 0
    /\ num_comps = 0
    /\ updates = << >>
    /\ pops = 0
    /\ truncs = 0
    /\ last = NoIteration
    /\ run_no = 0
    /\ prev_runs = << >>
    /\ GraphIdle

(***************************************************************************)
(* Actions                                                                 *)
(***************************************************************************)

\* The caller calls Search::run (search/mod.rs:79) with a fresh callback
Run ==
    /\ pc \in { "idle", "returned" }
    /\ run_no < MaxRuns
    /\ pc' = "called"
    /\ run_no' = run_no + 1
    /\ updates' = << >>
    /\ frontier' = {}
    /\ paths' = EmptyPaths
    /\ next_seq' = 0
    /\ iter_count' = 0
    /\ num_comps' = 0
    /\ pops' = 0
    /\ truncs' = 0
    /\ last' = NoIteration
    /\ UNCHANGED << search_data, abort_flag, prev_runs, graph_vars >>

\* search/mod.rs:83: abort_flag.store(false)
StoreFalse ==
    /\ pc = "called"
    /\ abort_flag' = FALSE
    /\ pc' = "start"
    /\ UNCHANGED << search_data, frontier, paths, next_seq, iter_count, num_comps,
                    updates, pops, truncs, last, run_no, prev_runs, graph_vars >>

\* best_first.rs:21-29: the frontier of start prefixes; peek().unwrap()
\* panics on an empty frontier
SearchInit ==
    /\ pc = "start"
    /\ \E st \in { Starts(graph) } :
           /\ frontier' = st.frontier
           /\ paths' = st.paths
           /\ next_seq' = st.seq
           /\ pc' = IF st.frontier = {} THEN "panicked" ELSE "loop"
    /\ iter_count' = 0
    /\ num_comps' = 0
    /\ UNCHANGED << search_data, abort_flag, updates, pops, truncs, last, run_no, prev_runs, graph_vars >>

\* best_first.rs:58-66: the frontier and the paths after the memory check
AfterMemCheck(fr, ps, mem_limit) ==
    IF OverMemLimit(MemUsage(fr, ps), mem_limit)
    THEN LET kept == TruncateQueue(Cardinality(fr) \div 2, fr)
         IN  [ frontier |-> kept, paths |-> PathsGc(ps, LiveHeads(kept)), truncated |-> TRUE ]
    ELSE [ frontier |-> fr, paths |-> ps, truncated |-> FALSE ]

\* best_first.rs:45-80: one iteration of the main loop
Iterate ==
    /\ pc = "loop"
    /\ \E prefix \in PopCandidates(frontier) :
       \E ex \in { Expand(graph, prefix, paths, frontier \ { prefix }, next_seq) } :
         LET found == ex.comp # << >>
             upd1  == IF found THEN Append(updates, CompUpdate(ex.comp[1])) ELSE updates
             nc    == IF found THEN num_comps + 1 ELSE num_comps
         IN  /\ pops' = pops + 1
             /\ num_comps' = nc
             /\ next_seq' = ex.seq
             /\ IF found /\ EnoughComps(nc, query.num_comps)
                THEN \* best_first.rs:54
                     /\ updates' = upd1
                     /\ frontier' = ex.frontier
                     /\ paths' = ex.paths
                     /\ pc' = "final"
                     /\ last' = [ NoIteration EXCEPT !.popped = << prefix >>,
                                                     !.comp = ex.comp,
                                                     !.broke = "num_comps" ]
                     /\ UNCHANGED << iter_count, truncs >>
                ELSE \E mc \in { AfterMemCheck(ex.frontier, ex.paths, config.mem_limit) } :
                     LET upd2  == IF mc.truncated
                                  THEN upd1 \o << ProgressUpdate(ex.frontier, iter_count, nc, TRUE),
                                                  ProgressUpdate(mc.frontier, iter_count, nc, FALSE) >>
                                  ELSE upd1
                         ic    == iter_count + 1
                         abort == AbortPoll(ic, abort_flag)
                     IN  /\ frontier' = mc.frontier
                         /\ paths' = mc.paths
                         /\ truncs' = IF mc.truncated THEN truncs + 1 ELSE truncs
                         /\ iter_count' = ic
                         /\ updates' =
                              IF abort THEN Append(upd2, AbortingUpdate)
                              ELSE IF ProgressDue(ic)
                                   THEN Append(upd2, ProgressUpdate(mc.frontier, ic, nc, FALSE))
                                   ELSE upd2
                         /\ pc' = IF abort THEN "final" ELSE "loop"
                         /\ last' = [ popped       |-> << prefix >>,
                                      comp         |-> ex.comp,
                                      broke        |-> IF abort THEN "abort" ELSE "no",
                                      mem_usage    |-> MemUsage(ex.frontier, ex.paths),
                                      truncated    |-> mc.truncated,
                                      before       |-> ex.frontier,
                                      nodes_before |-> ex.paths.nodes,
                                      polled       |-> ic % ITERS_BETWEEN_ABORT_CHECKS = 0,
                                      flag         |-> abort_flag ]
    /\ UNCHANGED << search_data, abort_flag, run_no, prev_runs, graph_vars >>

\* best_first.rs:45: frontier.pop() returns None
PopNone ==
    /\ pc = "loop"
    /\ frontier = {}
    /\ pc' = "final"
    /\ UNCHANGED << search_data, abort_flag, frontier, paths, next_seq, iter_count,
                    num_comps, updates, pops, truncs, last, run_no, prev_runs, graph_vars >>

\* search returns from the loop without its last update
ReturnWithoutUpdate ==
    /\ pc = "final"
    /\ pc' = "returned"
    /\ prev_runs' = Append(prev_runs,
                           [ comps   |-> SelectSeq(updates, LAMBDA u : u.type = "Comp"),
                             aborted |-> \E i \in 1 .. Len(updates) : updates[i].type = "Aborting" ])
    /\ UNCHANGED << search_data, abort_flag, frontier, paths, next_seq, iter_count,
                    num_comps, updates, pops, truncs, last, run_no, graph_vars >>

\* best_first.rs:82-83, and the return of search and of Search::run
FinalUpdate ==
    /\ pc = "final"
    /\ updates' = Append(updates, ProgressUpdate(frontier, iter_count, num_comps, FALSE))
    /\ pc' = "returned"
    /\ prev_runs' = Append(prev_runs,
                           [ comps   |-> SelectSeq(updates, LAMBDA u : u.type = "Comp"),
                             aborted |-> \E i \in 1 .. Len(updates) : updates[i].type = "Aborting" ])
    /\ UNCHANGED << search_data, abort_flag, frontier, paths, next_seq, iter_count,
                    num_comps, pops, truncs, last, run_no, graph_vars >>

\* Another thread sets the abort flag
SignalAbort ==
    /\ ~abort_flag
    /\ abort_flag' = TRUE
    /\ UNCHANGED << search_data, pc, frontier, paths, next_seq, iter_count, num_comps,
                    updates, pops, truncs, last, run_no, prev_runs, graph_vars >>

\* Search::new (search/mod.rs:54) called again with the same Parameters and
\* another Config: the graph and the query come out the same
NewSearch ==
    /\ pc \in { "idle", "returned" }
    /\ \E m \in MemLimits \ { config.mem_limit } :
           search_data' = [ search_data EXCEPT !.config.mem_limit = m ]
    /\ UNCHANGED << abort_flag, pc, frontier, paths, next_seq, iter_count, num_comps,
                    updates, pops, truncs, last, run_no, prev_runs, graph_vars >>

Worker == StoreFalse \/ SearchInit \/ Iterate \/ PopNone \/ FinalUpdate

Next == Run \/ Worker \/ SignalAbort

Spec == Init /\ [][Next]_vars

\* The worker thread keeps running while it has something to do
FairSpec == Spec /\ WF_vars(Worker)

\* The runs in which no other thread sets the abort flag
NoAbortNext == Run \/ Worker

NoAbortSpec == Init /\ [][NoAbortNext]_vars /\ WF_vars(Worker)

\* Searches built from the same Parameters with one Config after another,
\* none of them aborted
ConfigNext == Run \/ Worker \/ NewSearch

ConfigSpec == Init /\ [][ConfigNext]_vars

(***************************************************************************)
(* graph/src/graph.rs: the size of a graph                                 *)
(***************************************************************************)

\* No search exists while the graph is being built and optimised
SearchIdle ==
    /\ search_data = [ graph  |-> EmptyGraph,
                       query  |-> [ num_comps |-> 0 ],
                       config |-> [ mem_limit |-> 0 ] ]
    /\ abort_flag = FALSE
    /\ pc = "idle"
    /\ frontier = {}
    /\ paths = EmptyPaths
    /\ next_seq = 0
    /\ iter_count = 0
    /\ num_comps = 0
    /\ updates = << >>
    /\ pops = 0
    /\ truncs = 0
    /\ last = NoIteration
    /\ run_no = 0
    /\ prev_runs = << >>

\* the components of a Size take the values 0..MaxSizeCount when sizes are
\* compared on their own
MaxSizeCount == 2

\* struct Size (graph.rs:196)
Size(nodes, links, starts, ends) ==
    [ num_nodes |-> nodes, num_links |-> links, num_starts |-> starts, num_ends |-> ends ]

Sizes ==
    { Size(n, l, st, e) : n \in 0 .. MaxSizeCount, l \in 0 .. MaxSizeCount,
                          st \in 0 .. MaxSizeCount, e \in 0 .. MaxSizeCount }

\* usize::cmp
UsizeCmp(a, b) == IF a < b THEN "Less" ELSE IF a > b THEN "Greater" ELSE "Equal"

\* A comparison that leaves num_ends out
PartialCmpWithoutEnds(self, other) ==
    LET all_comparisons == << UsizeCmp(self.num_nodes, other.num_nodes),
                              UsizeCmp(self.num_links, other.num_links),
                              UsizeCmp(self.num_starts, other.num_starts) >>
        are_any_less    == \E i \in 1 .. 3 : all_comparisons[i] = "Less"
        are_any_greater == \E i \in 1 .. 3 : all_comparisons[i] = "Greater"
    IN  IF are_any_less /\ ~are_any_greater THEN "Less"
        ELSE IF ~are_any_less /\ are_any_greater THEN "Greater"
        ELSE IF ~are_any_less /\ ~are_any_greater THEN "Equal"
        ELSE "None"

\* Size::partial_cmp (graph.rs:217); the result is Less, Greater or Equal
\* for Some(..), and None
PartialCmp(self, other) ==
    LET cmp_nodes  == UsizeCmp(self.num_nodes, other.num_nodes)
        cmp_links  == UsizeCmp(self.num_links, other.num_links)
        cmp_starts == UsizeCmp(self.num_starts, other.num_starts)
        cmp_ends   == UsizeCmp(self.num_ends, other.num_ends)
        all_comparisons == << cmp_nodes, cmp_links, cmp_starts, cmp_ends >>
        are_any_less    == \E i \in 1 .. 4 : all_comparisons[i] = "Less"
        are_any_greater == \E i \in 1 .. 4 : all_comparisons[i] = "Greater"
    IN  IF are_any_less /\ ~are_any_greater THEN "Less"
        ELSE IF ~are_any_less /\ are_any_greater THEN "Greater"
        ELSE IF ~are_any_less /\ ~are_any_greater THEN "Equal"
        ELSE "None"

\* Two sizes to compare
SizeInit ==
    /\ SearchIdle
    /\ layout = << >>
    /\ max_length = 0
    /\ gpc = "sizes"
    /\ expanded_nodes = << >>
    /\ end_nodes = << >>
    /\ build_frontier = EmptyBag
    /\ start_nodes = << >>
    /\ source_graph = << >>
    /\ passes = << >>
    /\ limit = 0
    /\ last_size \in Sizes
    /\ new_size \in Sizes
    /\ ordering = "None"
    /\ rounds_run = 0
    /\ ghist = << >>
    /\ MultiIdle
    /\ LibIdle

\* new_size.partial_cmp(&last_size) (graph.rs:128), and the comparison the
\* other way round
Compare ==
    /\ gpc = "sizes"
    /\ ordering' = PartialCmp(new_size, last_size)
    /\ ghist' = << PartialCmp(last_size, new_size) >>
    /\ gpc' = "compared"
    /\ UNCHANGED << search_data, abort_flag, pc, frontier, paths, next_seq, iter_count,
                    num_comps, updates, pops, truncs, last, run_no, prev_runs >>
    /\ UNCHANGED << layout, max_length, expanded_nodes, end_nodes, build_frontier,
                    start_nodes, source_graph, passes, limit, last_size, new_size,
                    rounds_run >>
    /\ UNCHANGED multi_vars
    /\ UNCHANGED lib_vars

SizeSpec == SizeInit /\ [][Compare]_vars

(***************************************************************************)
(* Rows, layouts and segments.  The row algebra (bellframe) and the        *)
(* layout (Layout::get_segment, FalsenessTable) follow sections 3, 4.1 and *)
(* 4.2 of the design document.                                             *)
(***************************************************************************)

\* The number of bells
Stage == 3

Rounds == [ i \in 1 .. Stage |-> i ]

\* The rows of the stage: every bell exactly once
Rows == { r \in [ 1 .. Stage -> 1 .. Stage ] : \A i, j \in 1 .. Stage : r[i] = r[j] => i = j }

\* a * b: apply b to the positions of a
Mul(a, b) == [ i \in 1 .. Stage |-> a[b[i]] ]

\* the inverse of a row
Inv(a) == [ i \in 1 .. Stage |-> CHOOSE j \in 1 .. Stage : a[j] = i ]

\* NodeId::standard(course_head, row_idx, is_start)
StandardId(lh, idx, is_start) == [ lh |-> lh, idx |-> idx, start |-> is_start ]

\* NodeId::ZeroLengthEnd
ZeroLengthEnd == [ lh |-> << >>, idx |-> 0, start |-> FALSE ]

IsStandard(id) == id # ZeroLengthEnd

\* A link of the layout: from the segment that starts at row index `from`
\* to row index `to`, transposing the lead head
LayoutLink(from, to, trans) == [ from |-> from, to |-> to, trans |-> trans ]

\* A start of the layout
StartAt(course_head, row_idx) == [ course_head |-> course_head, row_idx |-> row_idx ]

\* One lead of two rows that is one segment, with a plain lead end and a
\* call: three plain leads give all six rows and come round.
WholeLeadLayout ==
    [ block   |-> << << 1, 2, 3 >>, << 2, 1, 3 >> >>,
      seg_len |-> (0 :> 2),
      links   |-> << LayoutLink(0, 0, << 2, 3, 1 >>), LayoutLink(0, 0, << 1, 3, 2 >>) >>,
      starts  |-> << StartAt(Rounds, 0) >>,
      end     |-> StartAt(Rounds, 0),
      snaps   |-> {} ]

\* One lead of three rows in two segments of lengths 1 and 2, a call in the
\* middle of the lead and one at the lead end; a start at the lead head and
\* a snap start in the middle, so that a chunk is reached over paths of
\* different lengths; the segments at rounds' last row are snap finishes.
SplitLeadLayout ==
    [ block   |-> << << 1, 2, 3 >>, << 2, 1, 3 >>, << 2, 3, 1 >> >>,
      seg_len |-> (0 :> 1) @@ (1 :> 2),
      links   |-> << LayoutLink(0, 1, << 1, 2, 3 >>), LayoutLink(0, 1, << 1, 3, 2 >>),
                     LayoutLink(1, 0, << 3, 2, 1 >>), LayoutLink(1, 0, << 3, 1, 2 >>),
                     LayoutLink(1, 1, << 2, 1, 3 >>) >>,
      starts  |-> << StartAt(Rounds, 0), StartAt(Rounds, 1) >>,
      end     |-> StartAt(Rounds, 0),
      snaps   |-> { StartAt(<< 3, 1, 2 >>, 1) } ]

\* The same start twice, a snap start, and two links from a segment to the
\* same segment.
TwoStartsLayout ==
    [ block   |-> << << 1, 2, 3 >>, << 1, 3, 2 >>, << 3, 1, 2 >> >>,
      seg_len |-> (0 :> 3) @@ (2 :> 1),
      links   |-> << LayoutLink(0, 0, << 3, 2, 1 >>), LayoutLink(2, 0, << 2, 1, 3 >>),
                     LayoutLink(0, 0, << 3, 2, 1 >>), LayoutLink(0, 2, << 1, 3, 2 >>) >>,
      starts  |-> << StartAt(Rounds, 0), StartAt(<< 2, 3, 1 >>, 2), StartAt(Rounds, 0) >>,
      end     |-> StartAt(Rounds, 0),
      snaps   |-> {} ]

\* One lead of two rows that is one segment, with the plain lead end the
\* other way round: the call comes round after two leads, the plain course
\* after three.
BackwardLeadLayout ==
    [ block   |-> << << 1, 2, 3 >>, << 2, 1, 3 >> >>,
      seg_len |-> (0 :> 2),
      links   |-> << LayoutLink(0, 0, << 3, 1, 2 >>), LayoutLink(0, 0, << 1, 3, 2 >>) >>,
      starts  |-> << StartAt(Rounds, 0) >>,
      end     |-> StartAt(Rounds, 0),
      snaps   |-> {} ]

\* No start at all
NoStartLayout ==
    [ block   |-> << << 1, 2, 3 >> >>,
      seg_len |-> (0 :> 1),
      links   |-> << LayoutLink(0, 0, << 2, 3, 1 >>) >>,
      starts  |-> << >>,
      end     |-> StartAt(Rounds, 0),
      snaps   |-> {} ]

Layouts == { WholeLeadLayout, SplitLeadLayout, TwoStartsLayout, BackwardLeadLayout,
             NoStartLayout }

\* max_length ranges over 0..MaxMaxLength
MaxMaxLength == 6

\* the indices of the layout links that leave the segment starting at idx
LinksFrom(lay, idx) == { k \in 1 .. Len(lay.links) : lay.links[k].from = idx }

\* where layout link k leads from a chunk with lead head lh: the zero-length
\* end when it reaches the end row, else the chunk that starts there
IdAfterLink(lay, lh, k) ==
    LET to_lh == Mul(lh, lay.links[k].trans)
    IN  IF StartAt(to_lh, lay.links[k].to) = lay.end
        THEN ZeroLengthEnd
        ELSE StandardId(to_lh, lay.links[k].to, FALSE)

\* Layout::get_segment: the run of rows from the chunk's row index up to
\* the next call point, with its links (link index, id after the link) in
\* the order of the layout
GetSegment(lay, id) ==
    IF ~IsStandard(id)
    THEN [ node_id |-> id, length |-> 0, links |-> << >>, end |-> << "ZeroLength" >>,
           method_counts |-> << 0 >> ]
    ELSE LET from == LinksFrom(lay, id.idx)
         IN  [ node_id       |-> id,
               length        |-> lay.seg_len[id.idx],
               links         |-> [ n \in 1 .. Cardinality(from) |->
                                     LET k == CHOOSE k \in from : Rank(from, k) = n - 1
                                     IN  << k, IdAfterLink(lay, id.lh, k) >> ],
               end           |-> IF StartAt(id.lh, id.idx) \in lay.snaps
                                 THEN << "Snap" >> ELSE << >>,
               method_counts |-> << lay.seg_len[id.idx] >> ]

\* the untransposed rows of a class of chunks (row index, length)
ClassRows(lay, idx, length) == { lay.block[idx + k] : k \in 1 .. length }

\* the rows of a chunk: the rows of its class transposed by its lead head
ChunkRows(lay, id, length) ==
    IF IsStandard(id) THEN { Mul(id.lh, r) : r \in ClassRows(lay, id.idx, length) } ELSE {}

\* the classes (row index, length) of the standard chunks
Classes(ids_and_lengths) ==
    { << il[1].idx, il[2] >> : il \in { x \in ids_and_lengths : IsStandard(x[1]) } }

\* FalsenessTable::from_layout: for each ordered pair of classes, the
\* transpositions r_a * r_b^-1 of a row of the one and a row of the other
FalsenessTable(lay, ids_and_lengths) ==
    [ ab \in Classes(ids_and_lengths) \X Classes(ids_and_lengths) |->
        { Mul(ra, Inv(rb)) : ra \in ClassRows(lay, ab[1][1], ab[1][2]),
                             rb \in ClassRows(lay, ab[2][1], ab[2][2]) } ]

\* FalsenessTable::are_false: id_a.lead_head^-1 * id_b.lead_head is in the
\* table of the two classes; a zero-length end has no rows
AreFalse(table, id_a, len_a, id_b, len_b) ==
    /\ IsStandard(id_a)
    /\ IsStandard(id_b)
    /\ Mul(Inv(id_a.lh), id_b.lh) \in table[<< << id_a.idx, len_a >>, << id_b.idx, len_b >> >>]

(***************************************************************************)
(* graph/src/graph.rs: Graph::from_layout                                  *)
(***************************************************************************)

\* FrontierItem { item, distance }
FrontierItem(item, distance) == [ item |-> item, distance |-> distance ]

\* Link::new(id, source_idx, rotation)
Link(id, source_idx, rotation) == [ id |-> id, source_idx |-> source_idx, rotation |-> rotation ]

\* the bag of the entries of a sequence
SeqToBag(seq) ==
    [ x \in { seq[i] : i \in 1 .. Len(seq) } |-> Cardinality({ i \in 1 .. Len(seq) : seq[i] = x }) ]

\* A layout and a length to build a graph from
BuildInit ==
    /\ SearchIdle
    /\ layout \in Layouts
    /\ max_length \in 0 .. MaxMaxLength
    /\ gpc = "layout"
    /\ expanded_nodes = << >>
    /\ end_nodes = << >>
    /\ build_frontier = EmptyBag
    /\ start_nodes = << >>
    /\ source_graph = << >>
    /\ passes = << >>
    /\ limit = 0
    /\ last_size = << >>
    /\ new_size = << >>
    /\ ordering = "None"
    /\ rounds_run = 0
    /\ ghist = << >>
    /\ MultiIdle
    /\ LibIdle

\* graph.rs:364-395: the frontier holds every start node at distance 0
FromLayout ==
    /\ gpc = "layout"
    /\ start_nodes' = [ i \in 1 .. Len(layout.starts) |->
                          << StandardId(layout.starts[i].course_head,
                                        layout.starts[i].row_idx, TRUE), i - 1 >> ]
    /\ build_frontier' = SeqToBag([ i \in 1 .. Len(layout.starts) |->
                                      FrontierItem(start_nodes'[i][1], 0) ])
    /\ expanded_nodes' = << >>
    /\ end_nodes' = << >>
    /\ gpc' = "dijkstra"
    /\ UNCHANGED << search_data, abort_flag, pc, frontier, paths, next_seq, iter_count,
                    num_comps, updates, pops, truncs, last, run_no, prev_runs >>
    /\ UNCHANGED << layout, max_length, source_graph, passes, limit, last_size, new_size,
                    ordering, rounds_run, ghist >>
    /\ UNCHANGED multi_vars
    /\ UNCHANGED lib_vars

\* A node that is expanded again each time it is popped
AlreadyExpandedNever(expanded, node_id) == FALSE

\* graph.rs:404
AlreadyExpanded(expanded, node_id) == node_id \in DOMAIN expanded

\* A length test against the distance before the node
TooFarBeforeNode(distance, length, max) == distance > max

\* graph.rs:414-415
TooFar(distance, length, max) == distance + length > max

\* graph.rs:397-431: one iteration of the loop.  The heap hands out an item
\* of the least distance; which one among equal distances is up to the heap.
DijkstraStep ==
    /\ gpc = "dijkstra"
    /\ \E it \in BagToSet(build_frontier) :
          /\ \A o \in BagToSet(build_frontier) : it.distance <= o.distance
          /\ LET popped  == build_frontier (-) SetToBag({ it })
                 node_id == it.item
                 segment == GetSegment(layout, node_id)
                 new_dist == it.distance + segment.length
             IN  IF AlreadyExpanded(expanded_nodes, node_id)
                    \/ TooFar(it.distance, segment.length, max_length)
                 THEN /\ build_frontier' = popped
                      /\ UNCHANGED << expanded_nodes, end_nodes, ghist >>
                 ELSE /\ end_nodes' = IF segment.end # << >>
                                      THEN Append(end_nodes, << node_id, segment.end[1] >>)
                                      ELSE end_nodes
                      /\ build_frontier' =
                            popped (+) SeqToBag([ i \in 1 .. Len(segment.links) |->
                                                    FrontierItem(segment.links[i][2], new_dist) ])
                      /\ expanded_nodes' =
                            [ id \in DOMAIN expanded_nodes \cup { node_id } |->
                                IF id = node_id
                                THEN [ segment |-> segment, distance |-> it.distance ]
                                ELSE expanded_nodes[id] ]
                      /\ ghist' = ghist (+) SetToBag({ << node_id, it.distance >> })
    /\ UNCHANGED << search_data, abort_flag, pc, frontier, paths, next_seq, iter_count,
                    num_comps, updates, pops, truncs, last, run_no, prev_runs >>
    /\ UNCHANGED << layout, max_length, gpc, start_nodes, source_graph, passes, limit,
                    last_size, new_size, ordering, rounds_run >>
    /\ UNCHANGED multi_vars
    /\ UNCHANGED lib_vars

\* graph.rs:449-473: the node of an expanded id.  `predecessors` is the bag
\* of its links (the order of a node's predecessors is the iteration order
\* of a HashMap) and `false_nodes` the set of its ids; the label and the
\* music are left out.
NewNode(node_id, segment, distance) ==
    [ length        |-> segment.length,
      method_counts |-> segment.method_counts,
      is_start      |-> node_id.start,
      end           |-> segment.end,
      required      |-> FALSE,
      lb_distance_from_rounds |-> distance,
      lb_distance_to_rounds   |-> 0,
      successors    |-> [ i \in 1 .. Len(segment.links) |->
                            Link(segment.links[i][2], segment.links[i][1], 0) ],
      false_nodes   |-> {},
      predecessors  |-> EmptyBag ]

\* False nodes that are looked up with the two ids the other way round and
\* in the table of the first class against itself
FalseNodesOneClass(table, nodes, id) ==
    { id2 \in { i \in DOMAIN nodes : IsStandard(i) } :
        /\ IsStandard(id)
        /\ Mul(Inv(id2.lh), id.lh) \in
              table[<< << id.idx, nodes[id].length >>, << id.idx, nodes[id].length >> >>] }

\* False nodes that leave the node itself out
FalseNodesButSelf(table, nodes, id) ==
    { id2 \in { i \in DOMAIN nodes :
                  AreFalse(table, id, nodes[id].length, i, nodes[i].length) } :
        IsStandard(id2) /\ id2 # id }

\* graph.rs:497-502: the standard ids of the nodes that are false against id
FalseNodes(table, nodes, id) ==
    { id2 \in { i \in DOMAIN nodes :
                  AreFalse(table, id, nodes[id].length, i, nodes[i].length) } :
        IsStandard(id2) }

\* graph.rs:438-503: a node per expanded id, then the falseness between them
BuildNodes ==
    /\ gpc = "dijkstra"
    /\ build_frontier = EmptyBag
    /\ LET nodes == [ id \in DOMAIN expanded_nodes |->
                        NewNode(id, expanded_nodes[id].segment, expanded_nodes[id].distance) ]
           node_ids_and_lengths == { << id, nodes[id].length >> : id \in DOMAIN nodes }
           table == FalsenessTable(layout, node_ids_and_lengths)
       IN  source_graph' =
             [ nodes       |-> [ id \in DOMAIN nodes |->
                                   [ nodes[id] EXCEPT !.false_nodes = FalseNodes(table, nodes, id) ] ],
               start_nodes |-> start_nodes,
               end_nodes   |-> end_nodes,
               num_parts   |-> 1 ]
    /\ gpc' = "preds"
    /\ UNCHANGED << search_data, abort_flag, pc, frontier, paths, next_seq, iter_count,
                    num_comps, updates, pops, truncs, last, run_no, prev_runs >>
    /\ UNCHANGED << layout, max_length, expanded_nodes, end_nodes, build_frontier,
                    start_nodes, passes, limit, last_size, new_size, ordering,
                    rounds_run, ghist >>
    /\ UNCHANGED multi_vars
    /\ UNCHANGED lib_vars

\* Predecessors that take the successor link as it is, with the id of the
\* successor
PredecessorsUnturned(nodes, b) ==
    LET from == { ai \in UNION { { << a, i >> : i \in 1 .. Len(nodes[a].successors) } :
                                   a \in DOMAIN nodes } :
                    nodes[ai[1]].successors[ai[2]].id = b }
        link(ai) == nodes[ai[1]].successors[ai[2]]
    IN  [ l \in { link(ai) : ai \in from } |->
            Cardinality({ ai \in from : link(ai) = l }) ]

\* graph.rs:507-517: what the loop pushes onto the predecessors of node b: a
\* link per successor link that names b, with the id of the node it leaves
Predecessors(nodes, b) ==
    LET from == { ai \in UNION { { << a, i >> : i \in 1 .. Len(nodes[a].successors) } :
                                   a \in DOMAIN nodes } :
                    nodes[ai[1]].successors[ai[2]].id = b }
        link(ai) == [ nodes[ai[1]].successors[ai[2]] EXCEPT !.id = ai[1] ]
    IN  [ l \in { link(ai) : ai \in from } |->
            Cardinality({ ai \in from : link(ai) = l }) ]

\* graph.rs:505-525: the predecessor links, and the graph is returned
SetPredecessors ==
    /\ gpc = "preds"
    /\ source_graph' =
          [ source_graph EXCEPT !.nodes =
              [ id \in DOMAIN source_graph.nodes |->
                  [ source_graph.nodes[id] EXCEPT
                      !.predecessors = Predecessors(source_graph.nodes, id) ] ] ]
    /\ gpc' = "built"
    /\ UNCHANGED << search_data, abort_flag, pc, frontier, paths, next_seq, iter_count,
                    num_comps, updates, pops, truncs, last, run_no, prev_runs >>
    /\ UNCHANGED << layout, max_length, expanded_nodes, end_nodes, build_frontier,
                    start_nodes, passes, limit, last_size, new_size, ordering,
                    rounds_run, ghist >>
    /\ UNCHANGED multi_vars
    /\ UNCHANGED lib_vars

BuildNext == FromLayout \/ DijkstraStep \/ BuildNodes \/ SetPredecessors

BuildSpec == BuildInit /\ [][BuildNext]_vars

(***************************************************************************)
(* The optimisation passes.  optimise::Pass follows section 4.3 of the     *)
(* design document: a pass is a named transformation of the graph.         *)
(***************************************************************************)

\* the ids in a list of (id, label) entries
EntryIds(entries) == { entries[i][1] : i \in 1 .. Len(entries) }

\* the nodes of the graph that a node's successor links lead to
SuccIds(g, a) ==
    { g.nodes[a].successors[i].id : i \in 1 .. Len(g.nodes[a].successors) } \cap DOMAIN g.nodes

\* the nodes that can be reached from the nodes of `from` without `without`
RECURSIVE ReachableFrom(_, _, _)
ReachableFrom(g, from, without) ==
    LET next == (from \cup UNION { SuccIds(g, a) : a \in from }) \ without
    IN  IF next = from THEN from ELSE ReachableFrom(g, next, without)

\* is there a path from a start to an end that avoids the nodes `without`
HasComp(g, without) ==
    ReachableFrom(g, (EntryIds(g.start_nodes) \cap DOMAIN g.nodes) \ without, without)
        \cap EntryIds(g.end_nodes) # {}

\* the least value of a non-empty set of numbers
Least(ds) == CHOOSE d \in ds : \A e \in ds : d <= e

\* Shortest distances by relaxation: d maps each node to a number of rows,
\* cap stands for every larger distance
RECURSIVE RelaxFrom(_, _, _)
RelaxFrom(g, d, cap) ==
    LET via(v) == { d[u] + g.nodes[u].length : u \in { x \in DOMAIN g.nodes : v \in SuccIds(g, x) } }
        next   == [ v \in DOMAIN g.nodes |-> Least({ d[v], cap } \cup via(v)) ]
    IN  IF next = d THEN d ELSE RelaxFrom(g, next, cap)

RECURSIVE RelaxTo(_, _, _)
RelaxTo(g, d, cap) ==
    LET via(v) == { d[w] + g.nodes[w].length : w \in SuccIds(g, v) }
        next   == [ v \in DOMAIN g.nodes |-> Least({ d[v], cap } \cup via(v)) ]
    IN  IF next = d THEN d ELSE RelaxTo(g, next, cap)

\* the larger of two numbers
Larger(a, b) == IF a >= b THEN a ELSE b

\* Distance propagation: Dijkstra from the starts forward and from the ends
\* backward; a bound is only ever tightened.  Distances beyond max + 1 are
\* kept as max + 1.
DistancePass(g, max) ==
    LET from == RelaxFrom(g, [ v \in DOMAIN g.nodes |->
                                 IF v \in EntryIds(g.start_nodes) THEN 0 ELSE max + 1 ], max + 1)
        to   == RelaxTo(g, [ v \in DOMAIN g.nodes |->
                               IF v \in EntryIds(g.end_nodes) THEN 0 ELSE max + 1 ], max + 1)
    IN  [ g EXCEPT !.nodes =
            [ v \in DOMAIN g.nodes |->
                [ g.nodes[v] EXCEPT
                    !.lb_distance_from_rounds = Larger(@, from[v]),
                    !.lb_distance_to_rounds   = Larger(@, to[v]) ] ] ]

\* Node::min_comp_length (graph.rs:188)
MinCompLength(node) ==
    node.lb_distance_from_rounds + node.length + node.lb_distance_to_rounds

\* Graph::retain_nodes (graph.rs:169)
RetainNodes(g, keep) == [ g EXCEPT !.nodes = [ v \in keep |-> g.nodes[v] ] ]

\* Length prune: remove the chunks whose shortest composition is too long
LengthPrunePass(g, max) ==
    RetainNodes(g, { v \in DOMAIN g.nodes : MinCompLength(g.nodes[v]) <= max })

\* Required chunks: a chunk is required if every start-to-end path visits it
RequiredPass(g) ==
    [ g EXCEPT !.nodes =
        [ v \in DOMAIN g.nodes |->
            [ g.nodes[v] EXCEPT !.required = @ \/ (HasComp(g, {}) /\ ~HasComp(g, { v })) ] ] ]

\* Falseness prune: remove the chunks that are false against a required
\* chunk; two required chunks that are false against each other empty the
\* graph
FalsenessPrunePass(g) ==
    LET req == { v \in DOMAIN g.nodes : g.nodes[v].required }
    IN  IF \E r1 \in req : \E r2 \in req : r1 # r2 /\ r2 \in g.nodes[r1].false_nodes
        THEN [ g EXCEPT !.nodes = << >>, !.start_nodes = << >>, !.end_nodes = << >> ]
        ELSE RetainNodes(g, { v \in DOMAIN g.nodes :
                                \A r \in req : r = v \/ v \notin g.nodes[r].false_nodes })

\* Start/end trim: Graph::retain_start_nodes and Graph::retain_end_nodes
\* (graph.rs:174, 179) with the test that the chunk is still there
StartEndTrimPass(g) ==
    [ g EXCEPT !.start_nodes = SelectSeq(@, LAMBDA e : e[1] \in DOMAIN g.nodes),
               !.end_nodes   = SelectSeq(@, LAMBDA e : e[1] \in DOMAIN g.nodes) ]

\* Dead link prune: remove the links whose endpoint is absent
DeadLinkPrunePass(g) ==
    [ g EXCEPT !.nodes =
        [ v \in DOMAIN g.nodes |->
            [ g.nodes[v] EXCEPT
                !.successors   = SelectSeq(@, LAMBDA l : l.id \in DOMAIN g.nodes),
                !.predecessors =
                    [ l \in { x \in BagToSet(g.nodes[v].predecessors) : x.id \in DOMAIN g.nodes }
                        |-> CopiesIn(l, g.nodes[v].predecessors) ] ] ] ]

\* A pass of the caller that makes a part of the graph larger: it lists the
\* first start once more
CloneStartPass(g) ==
    IF g.start_nodes = << >> THEN g
    ELSE [ g EXCEPT !.start_nodes = Append(@, g.start_nodes[1]) ]

\* Pass::run
RunPass(pass, g, max) ==
    CASE pass = "distances"       -> DistancePass(g, max)
      [] pass = "length_prune"    -> LengthPrunePass(g, max)
      [] pass = "required"        -> RequiredPass(g)
      [] pass = "falseness_prune" -> FalsenessPrunePass(g)
      [] pass = "start_end_trim"  -> StartEndTrimPass(g)
      [] pass = "dead_link_prune" -> DeadLinkPrunePass(g)
      [] pass = "clone_start"     -> CloneStartPass(g)

(***************************************************************************)
(* Graph::optimise and Graph::optimise_with_iter_limit (graph.rs:113-141)  *)
(***************************************************************************)

\* the largest limit given to optimise_with_iter_limit, and the number of
\* calls made on one graph
MaxLimit == 3
MaxOptCalls == 2

\* the iteration limit of Graph::optimise
OptimiseLimit == 20

\* A node of a graph given to the optimiser, as from_layout leaves it
OptNode(length, targets, falses, is_end) ==
    [ length        |-> length,
      method_counts |-> << length >>,
      is_start      |-> FALSE,
      end           |-> IF is_end THEN << "Snap" >> ELSE << >>,
      required      |-> FALSE,
      lb_distance_from_rounds |-> 0,
      lb_distance_to_rounds   |-> 0,
      successors    |-> [ i \in 1 .. Len(targets) |-> Link(targets[i], i - 1, 0) ],
      false_nodes   |-> falses,
      predecessors  |-> EmptyBag ]

\* A graph given to the optimiser: the nodes with their predecessor links,
\* the starts and the ends
OptGraph(nodes, starts, ends) ==
    [ nodes       |-> [ v \in DOMAIN nodes |->
                          [ nodes[v] EXCEPT !.is_start = v \in starts,
                                            !.predecessors = Predecessors(nodes, v) ] ],
      start_nodes |-> [ i \in 1 .. Cardinality(starts) |->
                          << CHOOSE v \in starts : Cardinality({ w \in starts : w < v }) = i - 1,
                             i - 1 >> ],
      end_nodes   |-> [ i \in 1 .. Cardinality(ends) |->
                          << CHOOSE v \in ends : Cardinality({ w \in ends : w < v }) = i - 1,
                             "Snap" >> ],
      num_parts   |-> 1 ]

\* 1 leads to 2 and 3, both lead to the end 4, and 3 also leads there by way
\* of 5; 2 is false against 4 and 5 against 3
DetourGraph ==
    OptGraph(<< OptNode(2, << 2, 3 >>, { 1 }, FALSE),
                OptNode(2, << 4 >>, { 2, 4 }, FALSE),
                OptNode(2, << 4, 5 >>, { 3, 5 }, FALSE),
                OptNode(2, << >>, { 4, 2 }, TRUE),
                OptNode(2, << 4 >>, { 5, 3 }, FALSE) >>, { 1 }, { 4 })

\* 1 leads to the end 3 at once and by way of the long chunk 2
LongGraph ==
    OptGraph(<< OptNode(2, << 2, 3 >>, { 1 }, FALSE),
                OptNode(5, << 3 >>, { 2 }, FALSE),
                OptNode(2, << >>, { 3 }, TRUE) >>, { 1 }, { 3 })

\* the only composition rings the chunks 1 and 2, which are false
FalseGraph ==
    OptGraph(<< OptNode(2, << 2 >>, { 1, 2 }, FALSE),
                OptNode(2, << >>, { 2, 1 }, TRUE) >>, { 1 }, { 2 })

\* two starts 1 and 2 that lead to the ends 3 and 4
TwoStartsGraph ==
    OptGraph(<< OptNode(2, << 3 >>, { 1 }, FALSE),
                OptNode(2, << 3, 4 >>, { 2 }, FALSE),
                OptNode(2, << >>, { 3 }, TRUE),
                OptNode(2, << >>, { 4 }, TRUE) >>, { 1, 2 }, { 3, 4 })

\* the graphs given to the optimiser, each with the longest length of Data
OptInputs ==
    { [ graph |-> DetourGraph, max |-> 8 ], [ graph |-> LongGraph, max |-> 6 ],
      [ graph |-> FalseGraph, max |-> 4 ], [ graph |-> TwoStartsGraph, max |-> 4 ] }

\* the passes of the design in their order
StandardPasses ==
    << "distances", "length_prune", "required", "falseness_prune", "start_end_trim",
       "dead_link_prune" >>

\* the pass sequences of the callers
PassLists ==
    { StandardPasses,
      << "falseness_prune", "required" >>,
      << "required", "falseness_prune", "clone_start" >>,
      << "clone_start" >>,
      << >> }

\* impl From<&Graph> for Size (graph.rs:203-213)
SizeOf(g) ==
    LET RECURSIVE links(_)
        links(vs) == IF vs = {} THEN 0
                     ELSE LET v == CHOOSE v \in vs : TRUE
                          IN  Len(g.nodes[v].successors) + links(vs \ { v })
    IN  Size(Cardinality(DOMAIN g.nodes), links(DOMAIN g.nodes),
             Len(g.start_nodes), Len(g.end_nodes))

\* Graph::run_passes (graph.rs:137-141)
RECURSIVE RunPasses(_, _, _)
RunPasses(ps, g, max) ==
    IF ps = << >> THEN g ELSE RunPasses(Tail(ps), RunPass(Head(ps), g, max), max)

\* A loop that also returns when the sizes are incomparable
StopsUnlessLess(ord) == ord \in { "Equal", "Greater", "None" }

\* A loop that also returns when the size is strictly smaller
StopsOnLess(ord) == ord \in { "Equal", "Greater", "Less" }

\* graph.rs:128-131: the orderings on which the loop returns
StopsOptimising(ord) == ord \in { "Equal", "Greater" }

OptInit ==
    /\ SearchIdle
    /\ layout = << >>
    /\ \E in \in OptInputs : source_graph = in.graph /\ max_length = in.max
    /\ gpc = "built"
    /\ expanded_nodes = << >>
    /\ end_nodes = << >>
    /\ build_frontier = EmptyBag
    /\ start_nodes = << >>
    /\ passes \in PassLists
    /\ limit = 0
    /\ last_size = << >>
    /\ new_size = << >>
    /\ ordering = "None"
    /\ rounds_run = 0
    /\ ghist = << >>
    /\ MultiIdle
    /\ LibIdle

\* the record of a call in ghist: a loop over no round returns at once
CallRecord(l, g) == [ limit |-> l, input |-> g, rounds |-> << >>, returned |-> (l = 0),
                      output |-> g ]

\* Graph::optimise (graph.rs:113-115): optimise_with_iter_limit with the
\* limit 20
Optimise ==
    /\ gpc \in { "built", "optimised" }
    /\ Len(ghist) < MaxOptCalls
    /\ limit' = OptimiseLimit
    /\ last_size' = SizeOf(source_graph)
    /\ rounds_run' = 0
    /\ gpc' = IF OptimiseLimit = 0 THEN "optimised" ELSE "optimising"
    /\ ghist' = Append(ghist, CallRecord(OptimiseLimit, source_graph))
    /\ UNCHANGED << search_data, abort_flag, pc, frontier, paths, next_seq, iter_count,
                    num_comps, updates, pops, truncs, last, run_no, prev_runs >>
    /\ UNCHANGED << layout, max_length, expanded_nodes, end_nodes, build_frontier,
                    start_nodes, passes, source_graph, new_size, ordering >>
    /\ UNCHANGED multi_vars
    /\ UNCHANGED lib_vars

\* Graph::optimise_with_iter_limit (graph.rs:119-120): the call with its
\* limit and the size before the first round
OptimiseWithIterLimit ==
    \E l \in 0 .. MaxLimit :
        /\ gpc \in { "built", "optimised" }
        /\ Len(ghist) < MaxOptCalls
        /\ limit' = l
        /\ last_size' = SizeOf(source_graph)
        /\ rounds_run' = 0
        /\ gpc' = IF l = 0 THEN "optimised" ELSE "optimising"
        /\ ghist' = Append(ghist, CallRecord(l, source_graph))
        /\ UNCHANGED << search_data, abort_flag, pc, frontier, paths, next_seq, iter_count,
                        num_comps, updates, pops, truncs, last, run_no, prev_runs >>
        /\ UNCHANGED << layout, max_length, expanded_nodes, end_nodes, build_frontier,
                        start_nodes, passes, source_graph, new_size, ordering >>
        /\ UNCHANGED multi_vars
        /\ UNCHANGED lib_vars

\* graph.rs:122-132: a round of the loop: the passes, the new size, the
\* comparison, the return or the next round
OptimiseRound ==
    /\ gpc = "optimising"
    /\ LET g    == RunPasses(passes, source_graph, max_length)
           size == SizeOf(g)
           ord  == PartialCmp(size, last_size)
           stop == StopsOptimising(ord)
           done == stop \/ rounds_run + 1 = limit
           call == ghist[Len(ghist)]
       IN  /\ source_graph' = g
           /\ new_size' = size
           /\ ordering' = ord
           /\ last_size' = IF stop THEN last_size ELSE size
           /\ rounds_run' = rounds_run + 1
           /\ gpc' = IF done THEN "optimised" ELSE "optimising"
           /\ ghist' = [ ghist EXCEPT ![Len(ghist)] =
                          [ call EXCEPT
                              !.rounds = Append(@, [ before |-> SizeOf(source_graph),
                                                     after  |-> size ]),
                              !.returned = done,
                              !.output = g ] ]
    /\ UNCHANGED limit
    /\ UNCHANGED << search_data, abort_flag, pc, frontier, paths, next_seq, iter_count,
                    num_comps, updates, pops, truncs, last, run_no, prev_runs >>
    /\ UNCHANGED << layout, max_length, expanded_nodes, end_nodes, build_frontier,
                    start_nodes, passes >>
    /\ UNCHANGED multi_vars
    /\ UNCHANGED lib_vars

OptNext == Optimise \/ OptimiseWithIterLimit \/ OptimiseRound

OptSpec == OptInit /\ [][OptNext]_vars

(***************************************************************************)
(* Graph::to_multipart (graph.rs:532-795).  The operations of NodeId and   *)
(* of Row follow section 4.4 of the design document.                       *)
(***************************************************************************)

\* the part heads that to_multipart is called with
PartHeadRows == { Rounds, << 2, 3, 1 >>, << 1, 3, 2 >> }

\* Row::closure_from_rounds: rounds, the row, its square, ... up to the last
\* power before rounds comes again
RECURSIVE ClosureFrom(_, _)
ClosureFrom(row, found) ==
    LET next == Mul(found[Len(found)], row)
    IN  IF next = Rounds THEN found ELSE ClosureFrom(row, Append(found, next))

ClosureFromRounds(row) == ClosureFrom(row, << Rounds >>)

\* NodeId::pre_multiply: the chunk at the same place of the course that the
\* row takes the lead head to
PreMultiply(id, row) == IF IsStandard(id) THEN [ id EXCEPT !.lh = Mul(row, @) ] ELSE id

\* NodeId::set_start
SetStart(id, is_start) == [ id EXCEPT !.start = is_start ]

\* Equiv::new (graph.rs:834)
Equiv(tag, id, rot) == [ tag |-> tag, id |-> id, rot |-> rot ]

\* Equiv::std (graph.rs:838)
EquivStd(id, rot) == Equiv("Std", id, rot)

\* HashMap::insert, and a run of inserts in their order
Insert(map, key, value) ==
    [ k \in DOMAIN map \cup { key } |-> IF k = key THEN value ELSE map[k] ]

RECURSIVE InsertAll(_, _)
InsertAll(map, entries) ==
    IF entries = << >> THEN map
    ELSE InsertAll(Insert(map, Head(entries)[1], Head(entries)[2]), Tail(entries))

\* graph.rs:581-592: what the loop over the starts inserts, in its order; an
\* Option is a sequence of at most one element
StartClassEntries(starts, heads) ==
    [ n \in 1 .. Len(starts) * Len(heads) |->
        LET id     == starts[(n - 1) \div Len(heads) + 1][1]
            rot    == (n - 1) % Len(heads)
            new_id == PreMultiply(id, heads[rot + 1])
        IN  IF rot # 0
            THEN << SetStart(new_id, FALSE), << Equiv("PartHead", id, rot) >> >>
            ELSE << new_id, << Equiv("Std", id, rot) >> >> ]

\* graph.rs:593-602: the ids that the loop over the ends maps to None
RemovedEndIds(ends, heads) ==
    { PreMultiply(ends[i][1], heads[r]) :
        i \in { j \in 1 .. Len(ends) : ends[j][2] # "ZeroLength" }, r \in 1 .. Len(heads) }

\* graph.rs:576-609: class_by_id before the loop over the ids of the graph
ClassesOfStartsAndEnds(g, heads) ==
    LET of_starts == InsertAll(<< >>, StartClassEntries(g.start_nodes, heads))
        removed   == RemovedEndIds(g.end_nodes, heads)
        of_ends   == [ k \in DOMAIN of_starts \cup removed |->
                         IF k \in removed THEN << >> ELSE of_starts[k] ]
    IN  Insert(of_ends, ZeroLengthEnd, << EquivStd(ZeroLengthEnd, 0) >>)

\* graph.rs:618-623: the class of an id, the id itself with rotation 0
ClassEntries(id, heads) ==
    [ n \in 1 .. Len(heads) |-> << PreMultiply(id, heads[n]), << EquivStd(id, n - 1) >> >> ]

\* graph.rs:533-542 and 576-609: the call, the part heads and the classes of
\* the starts and of the ends
ToMultipart ==
    /\ gpc = "built"
    /\ source_graph.num_parts = 1
    /\ \E part_head \in PartHeadRows :
          IF part_head = Rounds
          THEN /\ multipart' = source_graph
               /\ gpc' = "multipart"
               /\ UNCHANGED << part_heads, class_by_id, class_todo >>
          ELSE /\ part_heads' = ClosureFromRounds(part_head)
               /\ class_by_id' = ClassesOfStartsAndEnds(source_graph, part_heads')
               /\ class_todo' = DOMAIN source_graph.nodes \ DOMAIN class_by_id'
               /\ gpc' = "classing"
               /\ UNCHANGED multipart
    /\ UNCHANGED << search_data, abort_flag, pc, frontier, paths, next_seq, iter_count,
                    num_comps, updates, pops, truncs, last, run_no, prev_runs >>
    /\ UNCHANGED << layout, max_length, expanded_nodes, end_nodes, build_frontier,
                    start_nodes, source_graph, passes, limit, last_size, new_size,
                    ordering, rounds_run, ghist >>
    /\ UNCHANGED lib_vars

\* graph.rs:613-624: the loop reaches, in the order of the hash map, an id of
\* the graph that has no class yet and inserts its class; the ids that have
\* a class are passed over
ClassNode ==
    /\ gpc = "classing"
    /\ \E id \in class_todo :
          /\ class_by_id' = InsertAll(class_by_id, ClassEntries(id, part_heads))
          /\ class_todo' = class_todo \ DOMAIN class_by_id'
    /\ UNCHANGED << gpc, part_heads, multipart >>
    /\ UNCHANGED << search_data, abort_flag, pc, frontier, paths, next_seq, iter_count,
                    num_comps, updates, pops, truncs, last, run_no, prev_runs >>
    /\ UNCHANGED << layout, max_length, expanded_nodes, end_nodes, build_frontier,
                    start_nodes, source_graph, passes, limit, last_size, new_size,
                    ordering, rounds_run, ghist >>
    /\ UNCHANGED lib_vars

\* graph.rs:626-629: the entries that map to Some
FilterSome(map) == [ k \in { x \in DOMAIN map : map[x] # << >> } |-> map[k][1] ]

\* graph.rs:548-557: the classes, each with its source ids
EquivClasses(classes) ==
    [ equiv_id \in { classes[k].id : k \in DOMAIN classes } |->
        { Equiv(classes[k].tag, k, classes[k].rot) :
            k \in { x \in DOMAIN classes : classes[x].id = equiv_id } } ]

\* Successor links that keep the id of the class of a part-head image of a
\* start
CombineSuccessorsToStart(zero_rot_node, classes) ==
    LET kept == SelectSeq(zero_rot_node.successors, LAMBDA l : l.id \in DOMAIN classes)
    IN  [ i \in 1 .. Len(kept) |->
            Link(classes[kept[i].id].id, kept[i].source_idx, classes[kept[i].id].rot) ]

\* combine_links (graph.rs:742-776) for the successors
CombineSuccessors(zero_rot_node, classes) ==
    LET kept == SelectSeq(zero_rot_node.successors, LAMBDA l : l.id \in DOMAIN classes)
    IN  [ i \in 1 .. Len(kept) |->
            LET equiv == classes[kept[i].id]
            IN  Link(IF equiv.tag = "PartHead" THEN ZeroLengthEnd ELSE equiv.id,
                     kept[i].source_idx, equiv.rot) ]

\* the copies of the links `ls` in a bag
RECURSIVE SumCopies(_, _)
SumCopies(ls, bag) ==
    IF ls = {} THEN 0
    ELSE LET l == CHOOSE l \in ls : TRUE
         IN  CopiesIn(l, bag) + SumCopies(ls \ { l }, bag)

\* combine_links (graph.rs:742-776) for the predecessors
CombinePredecessors(zero_rot_node, classes) ==
    LET preds == zero_rot_node.predecessors
        kept  == { l \in BagToSet(preds) :
                     /\ l.id \in DOMAIN classes
                     /\ classes[l.id].tag # "PartHead"
                     /\ IsStandard(classes[l.id].id) }
        new_link(l) == Link(classes[l.id].id, l.source_idx, classes[l.id].rot)
    IN  [ n \in { new_link(l) : l \in kept } |->
            SumCopies({ l \in kept : new_link(l) = n }, preds) ]

\* combine_falseness (graph.rs:779-795)
CombineFalseness(zero_rot_node, classes) ==
    { id \in { classes[f].id : f \in zero_rot_node.false_nodes \cap DOMAIN classes } :
        IsStandard(id) }

\* merge_dists (graph.rs:807-813)
MergeDists(dists) == IF dists = {} THEN 0 ELSE Least(dists)

\* graph.rs:721-722: source_nodes.len()
LengthFactor(source_nodes, heads) == Cardinality(source_nodes)

\* graph.rs:688-691: the members of the class that are nodes of the graph
SourceNodes(g, source_ids) == { m \in source_ids : m.id \in DOMAIN g.nodes }

\* Graph::equiv_node (graph.rs:681-738) when none of its checks fails
EquivNode(g, heads, equiv_id, source_ids, classes) ==
    LET source_nodes  == SourceNodes(g, source_ids)
        zero_rot      == CHOOSE m \in source_nodes : m.rot = 0
        zero_rot_node == g.nodes[zero_rot.id]
        factor        == LengthFactor(source_nodes, heads)
    IN  [ is_start      |-> zero_rot_node.is_start,
          end           |-> zero_rot_node.end,
          successors    |-> CombineSuccessors(zero_rot_node, classes),
          predecessors  |-> CombinePredecessors(zero_rot_node, classes),
          false_nodes   |-> CombineFalseness(zero_rot_node, classes),
          length        |-> zero_rot_node.length * factor,
          method_counts |-> [ i \in DOMAIN zero_rot_node.method_counts |->
                               zero_rot_node.method_counts[i] * factor ],
          required      |-> \E m \in source_nodes : g.nodes[m.id].required,
          lb_distance_from_rounds |->
              MergeDists({ g.nodes[m.id].lb_distance_from_rounds : m \in source_nodes }),
          lb_distance_to_rounds   |->
              IF IsStandard(equiv_id)
              THEN MergeDists({ g.nodes[m.id].lb_distance_to_rounds : m \in source_nodes })
              ELSE 0 ]

\* all_eq (graph.rs:816)
AllEq(values) == Cardinality(values) <= 1

\* The check of build_multipart or of equiv_node that fails, in the order in
\* which they are made; "" if none fails
FailedCheck(g, heads, classes, equiv_classes) ==
    IF \E id \in DOMAIN equiv_classes :
          IsStandard(id) /\ Cardinality(equiv_classes[id]) # Len(heads)
    THEN "invalid equiv class size"
    ELSE IF \E id \in DOMAIN equiv_classes :
               \A m \in SourceNodes(g, equiv_classes[id]) : m.rot # 0
    THEN "Each equiv class should have a node with rotation 0"
    ELSE IF \E id \in DOMAIN equiv_classes :
               LET source_nodes == SourceNodes(g, equiv_classes[id])
                   zero_rot     == CHOOSE m \in source_nodes : m.rot = 0
               IN  \/ IsStandard(id) # IsStandard(zero_rot.id)
                   \/ ~AllEq({ g.nodes[m.id].is_start \/ m.tag = "PartHead" :
                                 m \in source_nodes })
                   \/ /\ IsStandard(id)
                      /\ \/ ~AllEq({ g.nodes[m.id].length : m \in source_nodes })
                         \/ ~AllEq({ g.nodes[m.id].method_counts : m \in source_nodes })
    THEN "assertion failed"
    ELSE IF \E i \in 1 .. Len(g.start_nodes) :
               /\ g.start_nodes[i][1] \in DOMAIN classes
               /\ classes[g.start_nodes[i][1]].rot # 0
    THEN "assertion failed: equiv.rot == 0"
    ELSE ""

\* a sequence of the elements of a set, in the order of the hash map
SeqOf(set) ==
    CHOOSE q \in [ 1 .. Cardinality(set) -> set ] : { q[i] : i \in DOMAIN q } = set

\* Graph::build_multipart (graph.rs:633-678) when none of the checks fails
MultipartGraph(g, heads, classes, equiv_classes) ==
    LET nodes  == [ id \in DOMAIN equiv_classes |->
                      EquivNode(g, heads, id, equiv_classes[id], classes) ]
        starts == SelectSeq(g.start_nodes, LAMBDA st : st[1] \in DOMAIN classes)
    IN  [ nodes       |-> nodes,
          start_nodes |-> [ i \in 1 .. Len(starts) |->
                              << classes[starts[i][1]].id, starts[i][2] >> ],
          end_nodes   |-> SeqOf({ << id, nodes[id].end[1] >> :
                                    id \in { x \in DOMAIN nodes : nodes[x].end # << >> } }),
          num_parts   |-> Len(heads) ]

\* graph.rs:544-562 and 626-678: the loop over the ids is over; the classes
\* are filtered and inverted, and the multi-part graph is built unless a
\* check panics
BuildMultipart ==
    /\ gpc = "classing"
    /\ class_todo = {}
    /\ LET classes       == FilterSome(class_by_id)
           equiv_classes == EquivClasses(classes)
           failed        == FailedCheck(source_graph, part_heads, classes, equiv_classes)
       IN  /\ class_by_id' = classes
           /\ IF failed # ""
              THEN /\ multipart' = [ panic |-> failed ]
                   /\ gpc' = "panicked"
              ELSE /\ multipart' = MultipartGraph(source_graph, part_heads, classes,
                                                  equiv_classes)
                   /\ gpc' = "multipart"
    /\ UNCHANGED << part_heads, class_todo >>
    /\ UNCHANGED << search_data, abort_flag, pc, frontier, paths, next_seq, iter_count,
                    num_comps, updates, pops, truncs, last, run_no, prev_runs >>
    /\ UNCHANGED << layout, max_length, expanded_nodes, end_nodes, build_frontier,
                    start_nodes, source_graph, passes, limit, last_size, new_size,
                    ordering, rounds_run, ghist >>
    /\ UNCHANGED lib_vars

MultiNext ==
    \/ FromLayout \/ DijkstraStep \/ BuildNodes \/ SetPredecessors
    \/ ToMultipart \/ ClassNode \/ BuildMultipart

\* from_layout, then to_multipart on the graph that it returns
MultiSpec == BuildInit /\ [][MultiNext]_vars

(***************************************************************************)
(* composition.rs: num_leads_covered                                       *)
(***************************************************************************)

\* the longest lead
MaxLeadLen == 6

\* the longest chunk, in rows of one part
MaxChunkLen == 14

\* usize::saturating_sub
SaturatingSub(a, b) == IF a > b THEN a - b ELSE 0

\* a division that rounds down
DivRoundingDown(lhs, rhs) == lhs \div rhs

\* utils::div_rounding_up
DivRoundingUp(lhs, rhs) == (lhs + rhs - 1) \div rhs

\* num_leads_covered, after its assertion (composition.rs:315-318)
NumLeadsCovered(lead_len, start_sub_lead_idx, length) ==
    LET dist_to_end_of_first_lead == lead_len - start_sub_lead_idx
        rows_after_end_of_first_lead == SaturatingSub(length, dist_to_end_of_first_lead)
    IN  DivRoundingUp(rows_after_end_of_first_lead, lead_len) + 1

\* A call of num_leads_covered on a chunk that starts at a row of a lead.
\* Lead lengths and chunk lengths are lengths of blocks held in memory, far
\* below the width of usize.
LeadsInit ==
    /\ SearchIdle
    /\ BuilderIdle
    /\ fpc = "num_leads_covered"
    /\ \E lead_len \in 1 .. MaxLeadLen :
          fargs \in [ lead_len : { lead_len }, start_sub_lead_idx : 0 .. lead_len - 1,
                      length : 0 .. MaxChunkLen ]
    /\ fret = << >>

\* composition.rs:313-319
CallNumLeadsCovered ==
    /\ fpc = "num_leads_covered"
    /\ fret' = IF fargs.length = 0
               THEN [ panic |-> "assertion failed" ]
               ELSE [ value |-> NumLeadsCovered(fargs.lead_len, fargs.start_sub_lead_idx,
                                                fargs.length) ]
    /\ fpc' = "returned"
    /\ UNCHANGED fargs
    /\ UNCHANGED << search_data, abort_flag, pc, frontier, paths, next_seq, iter_count,
                    num_comps, updates, pops, truncs, last, run_no, prev_runs >>
    /\ UNCHANGED << layout, max_length, gpc, expanded_nodes, end_nodes, build_frontier,
                    start_nodes, source_graph, passes, limit, last_size, new_size,
                    ordering, rounds_run, ghist, multi_vars >>

LeadsSpec == LeadsInit /\ [][CallNumLeadsCovered]_vars

(***************************************************************************)
(* bellframe/src/mask.rs: Mask::matches and Mask::is_subset_of             *)
(***************************************************************************)

\* the highest stage of a mask
MaxMaskStage == 3

\* an unfilled position of a mask (None, written x)
NoBell == 0

\* the rows of stage n
RowsOf(n) == { r \in [ 1 .. n -> 1 .. n ] : \A i, j \in 1 .. n : r[i] = r[j] => i = j }

\* the masks of stage n: each position holds a bell of the stage or none,
\* and no bell is there twice
MasksOf(n) ==
    { m \in [ 1 .. n -> 0 .. n ] :
        \A i, j \in 1 .. n : (m[i] # NoBell /\ m[i] = m[j]) => i = j }

\* Mask::stage
MaskStage(mask) == Len(mask)

\* Mask::matches
Matches(mask, row) ==
    IF MaskStage(mask) # Len(row) THEN FALSE
    ELSE \A i \in 1 .. Len(row) : mask[i] # NoBell => mask[i] = row[i]

\* Mask::is_subset_of
IsSubsetOf(self, other) ==
    IF MaskStage(self) # MaskStage(other) THEN FALSE
    ELSE \A i \in 1 .. Len(self) :
            other[i] # NoBell => (self[i] # NoBell /\ self[i] = other[i])

\* a call of is_subset_of on two masks
MaskInit ==
    /\ SearchIdle
    /\ BuilderIdle
    /\ fpc = "is_subset_of"
    /\ \E n \in 1 .. MaxMaskStage : \E k \in 1 .. MaxMaskStage :
          fargs \in [ self : MasksOf(n), other : MasksOf(k) ]
    /\ fret = << >>

\* mask.rs:255-279
CallIsSubsetOf ==
    /\ fpc = "is_subset_of"
    /\ fret' = [ value |-> IsSubsetOf(fargs.self, fargs.other) ]
    /\ fpc' = "returned"
    /\ UNCHANGED fargs
    /\ UNCHANGED << search_data, abort_flag, pc, frontier, paths, next_seq, iter_count,
                    num_comps, updates, pops, truncs, last, run_no, prev_runs >>
    /\ UNCHANGED << layout, max_length, gpc, expanded_nodes, end_nodes, build_frontier,
                    start_nodes, source_graph, passes, limit, last_size, new_size,
                    ordering, rounds_run, ghist, multi_vars >>

MaskSpec == MaskInit /\ [][CallIsSubsetOf]_vars

(***************************************************************************)
(* bellframe/src/mask.rs: the operations that make masks from masks        *)
(* (set_bell, fix, intersect, mask * row, row * mask).  Places are counted *)
(* from 1 here: place p of the source is place p + 1 of the model, and     *)
(* the index of bell b is place b.                                         *)
(***************************************************************************)

\* everything but the library variables
rest_vars == << search_data, abort_flag, pc, frontier, paths, next_seq, iter_count,
                num_comps, updates, pops, truncs, last, run_no, prev_runs,
                layout, max_length, gpc, expanded_nodes, end_nodes, build_frontier,
                start_nodes, source_graph, passes, limit, last_size, new_size,
                ordering, rounds_run, ghist, multi_vars >>

\* Row * Row (bellframe): the row b permuted by a, (a * b)[i] = a[b[i]]
RowMul(a, b) == [ i \in 1 .. Len(b) |-> a[b[i]] ]

\* Mask::place_of: the place of a bell in a mask, NoBell (0) when it is absent
PlaceOf(mask, bell) ==
    IF \E i \in 1 .. Len(mask) : mask[i] = bell
    THEN CHOOSE i \in 1 .. Len(mask) :
            /\ mask[i] = bell
            /\ \A j \in 1 .. Len(mask) : mask[j] = bell => i <= j
    ELSE 0

\* Mask::set_bell without its test of the place the bell already has
SetBellUnchecked(mask, bell, place) ==
    [ mask |-> [ mask EXCEPT ![place] = bell ], result |-> "Ok" ]

\* Mask::set_bell: the mask afterwards and Ok or Err(BellAlreadySet)
SetBell(mask, bell, place) ==
    LET existing == PlaceOf(mask, bell)
    IN  IF existing = place THEN [ mask |-> mask, result |-> "Ok" ]
        ELSE IF existing # 0 THEN [ mask |-> mask, result |-> "BellAlreadySet" ]
        ELSE [ mask |-> [ mask EXCEPT ![place] = bell ], result |-> "Ok" ]

\* Mask::fix
Fix(mask, b) == SetBell(mask, b, b)

\* Mask::is_compatible_with, but for the test that a bell of other is at
\* another place of self
IsCompatibleAtPlaces(self, other) ==
    IF MaskStage(self) # MaskStage(other) THEN FALSE
    ELSE \A i \in 1 .. Len(other) :
            other[i] # NoBell => (self[i] = NoBell \/ self[i] = other[i])

\* Mask::is_compatible_with
IsCompatibleWith(self, other) ==
    IF MaskStage(self) # MaskStage(other) THEN FALSE
    ELSE \A i \in 1 .. Len(other) :
            other[i] # NoBell =>
                /\ (self[i] = NoBell \/ self[i] = other[i])
                /\ PlaceOf(self, other[i]) \in { 0, i }

\* Mask::intersect: << >> is None, << m >> is Some(m)
Intersect(self, other) ==
    IF ~IsCompatibleWith(self, other) THEN << >>
    ELSE << [ i \in 1 .. Len(self) |->
                IF self[i] # NoBell THEN self[i] ELSE other[i] ] >>

\* &Row * &Mask with the row applied to the places, as in &Mask * &Row
RowMulMaskPlaces(row, mask) == [ i \in 1 .. Len(row) |-> mask[row[i]] ]

\* &Row * &Mask: the bells of the mask renamed by the row
RowMulMask(row, mask) ==
    [ i \in 1 .. Len(mask) |-> IF mask[i] = NoBell THEN NoBell ELSE row[mask[i]] ]

\* &Mask * &Row: the places of the mask permuted by the row
MaskMulRow(mask, row) == [ i \in 1 .. Len(row) |-> mask[row[i]] ]

\* a mask on which the operations are called
MaskOpsInit ==
    /\ SearchIdle
    /\ BuilderIdle
    /\ fpc = "mask"
    /\ \E n \in 1 .. MaxMaskStage : fargs \in [ mask : MasksOf(n) ]
    /\ fret = << >>

\* mask.rs:210-225
CallSetBell ==
    /\ fpc = "mask"
    /\ \E bell \in 1 .. Len(fargs.mask) : \E place \in 1 .. Len(fargs.mask) :
          LET r == SetBell(fargs.mask, bell, place)
          IN  /\ fargs' = [ mask |-> r.mask ]
              /\ fret' = [ op |-> "set_bell", self |-> fargs.mask, bell |-> bell,
                           place |-> place, result |-> r.result ]
    /\ fpc' = "mask_returned"
    /\ UNCHANGED rest_vars

\* mask.rs:141-146
CallFix ==
    /\ fpc = "mask"
    /\ \E b \in 1 .. Len(fargs.mask) :
          LET r == Fix(fargs.mask, b)
          IN  /\ fargs' = [ mask |-> r.mask ]
              /\ fret' = [ op |-> "fix", self |-> fargs.mask, bell |-> b,
                           place |-> b, result |-> r.result ]
    /\ fpc' = "mask_returned"
    /\ UNCHANGED rest_vars

\* mask.rs:323-346: the mask goes on as the intersection when there is one
CallIntersect ==
    /\ fpc = "mask"
    /\ \E n \in 1 .. MaxMaskStage : \E other \in MasksOf(n) :
          LET r == Intersect(fargs.mask, other)
          IN  /\ fargs' = [ mask |-> IF r = << >> THEN fargs.mask ELSE r[1] ]
              /\ fret' = [ op |-> "intersect", self |-> fargs.mask, other |-> other,
                           result |-> r ]
    /\ fpc' = "mask_returned"
    /\ UNCHANGED rest_vars

\* mask.rs:412-428 (the stages are asserted equal)
CallMaskMulRow ==
    /\ fpc = "mask"
    /\ \E row \in RowsOf(Len(fargs.mask)) :
          /\ fargs' = [ mask |-> MaskMulRow(fargs.mask, row) ]
          /\ fret' = [ op |-> "mask_mul_row", self |-> fargs.mask, row |-> row,
                       result |-> MaskMulRow(fargs.mask, row) ]
    /\ fpc' = "mask_returned"
    /\ UNCHANGED rest_vars

\* mask.rs:460-480 (the stages are asserted equal)
CallRowMulMask ==
    /\ fpc = "mask"
    /\ \E row \in RowsOf(Len(fargs.mask)) :
          /\ fargs' = [ mask |-> RowMulMask(row, fargs.mask) ]
          /\ fret' = [ op |-> "row_mul_mask", self |-> fargs.mask, row |-> row,
                       result |-> RowMulMask(row, fargs.mask) ]
    /\ fpc' = "mask_returned"
    /\ UNCHANGED rest_vars

\* the caller drops what the operation returned and goes on with the mask
MaskOpsResume ==
    /\ fpc = "mask_returned"
    /\ fpc' = "mask"
    /\ fret' = << >>
    /\ UNCHANGED fargs
    /\ UNCHANGED rest_vars

MaskOpsNext ==
    \/ MaskOpsResume
    \/ CallSetBell
    \/ CallFix
    \/ CallIntersect
    \/ CallMaskMulRow
    \/ CallRowMulMask

MaskOpsSpec == MaskOpsInit /\ [][MaskOpsNext]_vars

(***************************************************************************)
(* monument/lib/src/graph/mod.rs: LinkSet                                  *)
(***************************************************************************)

\* how many links are added to a link set
MaxLinksAdded == 3

\* LinkSide::StartOrEnd; LinkSide::Chunk(c) is the chunk id c
StartOrEnd == 0

\* the links that are added: a start link and an end link of chunk 1
LinkValues == { [ from |-> StartOrEnd, to |-> 1 ], [ from |-> 1, to |-> StartOrEnd ] }

\* LinkSet::new
LinkSetNew == [ next_id |-> 0, map |-> << >> ]

\* LinkSet::add with the number of links as the new id
LinkSetAddAtLen(set, link) ==
    [ id |-> Cardinality(DOMAIN set.map),
      set |-> [ next_id |-> set.next_id + 1,
                map |-> [ i \in DOMAIN set.map \cup { Cardinality(DOMAIN set.map) } |->
                            IF i = Cardinality(DOMAIN set.map) THEN link ELSE set.map[i] ] ] ]

\* LinkSet::add (with next_id): the id returned and the set afterwards
LinkSetAdd(set, link) ==
    [ id |-> set.next_id,
      set |-> [ next_id |-> set.next_id + 1,
                map |-> [ i \in DOMAIN set.map \cup { set.next_id } |->
                            IF i = set.next_id THEN link ELSE set.map[i] ] ] ]

\* LinkSet::len
LinkSetLen(set) == Cardinality(DOMAIN set.map)

\* LinkSet::get: << >> is None, << link >> is Some(link)
LinkSetGet(set, id) == IF id \in DOMAIN set.map THEN << set.map[id] >> ELSE << >>

\* LinkSet::retain, the predicate being true of the ids in keep
LinkSetRetain(set, keep) ==
    [ set EXCEPT !.map = [ i \in DOMAIN set.map \cap keep |-> set.map[i] ] ]

\* the calls of add so far, marked as removed when a predicate given to
\* retain was false of their id
MarkRemoved(added, keep) ==
    [ k \in 1 .. Len(added) |->
        IF added[k].id \in keep THEN added[k] ELSE [ added[k] EXCEPT !.removed = TRUE ] ]

\* a new link set
LinkSetInit ==
    /\ SearchIdle
    /\ BuilderIdle
    /\ fpc = "link_set"
    /\ fargs = [ links |-> LinkSetNew, added |-> << >> ]
    /\ fret = << >>

\* mod.rs:255-260, 292-297
CallAdd ==
    /\ fpc = "link_set"
    /\ Len(fargs.added) < MaxLinksAdded
    /\ \E link \in LinkValues :
          LET r == LinkSetAdd(fargs.links, link)
          IN  /\ fargs' = [ links |-> r.set,
                            added |-> Append(fargs.added,
                                             [ id |-> r.id, link |-> link, removed |-> FALSE ]) ]
              /\ fret' = [ op |-> "add", result |-> r.id ]
    /\ UNCHANGED fpc
    /\ UNCHANGED rest_vars

\* mod.rs:287-290
CallRetain ==
    /\ fpc = "link_set"
    /\ \E keep \in SUBSET (0 .. MaxLinksAdded - 1) :
          /\ fargs' = [ links |-> LinkSetRetain(fargs.links, keep),
                        added |-> MarkRemoved(fargs.added, keep) ]
          /\ fret' = [ op |-> "retain", keep |-> keep ]
    /\ UNCHANGED fpc
    /\ UNCHANGED rest_vars

\* mod.rs:266-268
CallGet ==
    /\ fpc = "link_set"
    /\ \E id \in 0 .. MaxLinksAdded :
          fret' = [ op |-> "get", id |-> id, result |-> LinkSetGet(fargs.links, id) ]
    /\ UNCHANGED << fpc, fargs >>
    /\ UNCHANGED rest_vars

\* mod.rs:262-264
CallLen ==
    /\ fpc = "link_set"
    /\ fret' = [ op |-> "len", result |-> LinkSetLen(fargs.links) ]
    /\ UNCHANGED << fpc, fargs >>
    /\ UNCHANGED rest_vars

LinkSetNext ==
    \/ CallAdd
    \/ CallRetain
    \/ CallGet
    \/ CallLen

LinkSetSpec == LinkSetInit /\ [][LinkSetNext]_vars

(***************************************************************************)
(* monument/lib/src/graph/mod.rs: Graph, Chunk::succ_links and pred_links  *)
(***************************************************************************)

\* the link set of LinkedGraph: a start link of chunk 1, links from 1 to 2,
\* from 2 to 1 and from 2 to 2, and an end link of each chunk
LinkedGraphLinks ==
    [ next_id |-> 6,
      map |-> [ id \in 0 .. 5 |->
                  CASE id = 0 -> [ from |-> StartOrEnd, to |-> 1 ]
                    [] id = 1 -> [ from |-> 1, to |-> 2 ]
                    [] id = 2 -> [ from |-> 2, to |-> 1 ]
                    [] id = 3 -> [ from |-> 2, to |-> 2 ]
                    [] id = 4 -> [ from |-> 1, to |-> StartOrEnd ]
                    [] id = 5 -> [ from |-> 2, to |-> StartOrEnd ] ] ]

\* a Graph of two chunks whose references are all valid
LinkedGraph ==
    [ chunks |-> [ c \in { 1, 2 } |->
                     IF c = 1 THEN [ predecessors |-> << 0, 2 >>, successors |-> << 1, 4 >> ]
                     ELSE [ predecessors |-> << 1, 3 >>, successors |-> << 2, 3, 5 >> ] ],
      links |-> LinkedGraphLinks ]

\* the links of a list of ids that LinkSet::get finds, each with its id
LinksFound(ids, gr) ==
    LET Found(id) == LinkSetGet(gr.links, id) # << >>
        found == SelectSeq(ids, Found)
    IN  [ k \in 1 .. Len(found) |-> << found[k], gr.links.map[found[k]] >> ]

\* Chunk::pred_links
ChunkPredLinks(chunk, gr) == LinksFound(chunk.predecessors, gr)

\* Chunk::succ_links
ChunkSuccLinks(chunk, gr) == LinksFound(chunk.successors, gr)

\* a graph whose chunks and links are about to be removed
LinkedInit ==
    /\ SearchIdle
    /\ BuilderIdle
    /\ fpc = "graph"
    /\ fargs = LinkedGraph
    /\ fret = << >>

\* a chunk is taken out of Graph::chunks (mod.rs:35-38: the links to it stay)
RemoveChunk ==
    /\ fpc = "graph"
    /\ \E c \in DOMAIN fargs.chunks :
          /\ fargs' = [ fargs EXCEPT !.chunks = [ d \in DOMAIN fargs.chunks \ { c } |->
                                                    fargs.chunks[d] ] ]
          /\ fret' = [ op |-> "remove_chunk", chunk |-> c ]
    /\ UNCHANGED fpc
    /\ UNCHANGED rest_vars

\* links are taken out of Graph::links (mod.rs:287-290: the lists of the
\* chunks keep their ids)
RetainLinks ==
    /\ fpc = "graph"
    /\ \E keep \in SUBSET (DOMAIN fargs.links.map) :
          /\ keep # DOMAIN fargs.links.map
          /\ fargs' = [ fargs EXCEPT !.links = LinkSetRetain(fargs.links, keep) ]
          /\ fret' = [ op |-> "retain", keep |-> keep ]
    /\ UNCHANGED fpc
    /\ UNCHANGED rest_vars

\* mod.rs:146-155
CallPredLinks ==
    /\ fpc = "graph"
    /\ \E c \in DOMAIN fargs.chunks :
          fret' = [ op |-> "pred_links", chunk |-> c, ids |-> fargs.chunks[c].predecessors,
                    result |-> ChunkPredLinks(fargs.chunks[c], fargs) ]
    /\ UNCHANGED << fpc, fargs >>
    /\ UNCHANGED rest_vars

\* mod.rs:157-166
CallSuccLinks ==
    /\ fpc = "graph"
    /\ \E c \in DOMAIN fargs.chunks :
          fret' = [ op |-> "succ_links", chunk |-> c, ids |-> fargs.chunks[c].successors,
                    result |-> ChunkSuccLinks(fargs.chunks[c], fargs) ]
    /\ UNCHANGED << fpc, fargs >>
    /\ UNCHANGED rest_vars

LinkedNext ==
    \/ RemoveChunk
    \/ RetainLinks
    \/ CallPredLinks
    \/ CallSuccLinks

LinkedSpec == LinkedInit /\ [][LinkedNext]_vars

(***************************************************************************)
(* src/engine.rs: Table::compose and Engine::recursive_compose.  The engine *)
(* (nodes, calls, nodes_considered) is in fargs with the table and the      *)
(* range; fret holds the frames of recursive_compose that have not          *)
(* returned, the compositions printed and the last return.  Sections are    *)
(* numbered from 1.                                                         *)
(***************************************************************************)

\* the longest composition asked for
MaxDesiredLen == 6

\* a table of one section of two rows, false against itself, with a plain
\* lead and a call; a composition ends at rounds
HuntTable ==
    [ start     |-> 1,
      end_nodes |-> { [ row |-> Rounds, section |-> 1 ] },
      length    |-> << 2 >>,
      falseness |-> << << << Rounds, 1 >> >> >>,
      expand    |-> << << << "p", << 2, 3, 1 >>, 1 >>, << "b", << 2, 1, 3 >>, 1 >> >> >> ]

\* a table of two sections that are false against themselves and, in the
\* courses one transposition apart, against each other
TwoSectionTable ==
    [ start     |-> 1,
      end_nodes |-> { [ row |-> Rounds, section |-> 1 ] },
      length    |-> << 2, 1 >>,
      falseness |-> << << << Rounds, 1 >>, << << 1, 3, 2 >>, 2 >> >>,
                       << << Rounds, 2 >>, << Inv(<< 1, 3, 2 >>), 1 >> >> >>,
      expand    |-> << << << "p", Rounds, 2 >>, << "b", << 2, 1, 3 >>, 2 >> >>,
                       << << "p", << 2, 3, 1 >>, 1 >> >> >> ]

\* a table whose compositions end in a section of their own, in any course
FinishTable ==
    [ start     |-> 1,
      end_nodes |-> { [ row |-> r, section |-> 2 ] : r \in Rows },
      length    |-> << 1, 1 >>,
      falseness |-> << << << Rounds, 1 >> >>, << << Rounds, 2 >> >> >>,
      expand    |-> << << << "p", << 2, 3, 1 >>, 1 >>, << "b", << 2, 1, 3 >>, 1 >>,
                          << "f", Rounds, 2 >> >>,
                       << >> >> ]

Tables == { HuntTable, TwoSectionTable, FinishTable }

\* Node::new
Node(row, section) == [ row |-> row, section |-> section ]

\* Table::start_node
StartNode(table) == Node(Rounds, table.start)

\* Table::is_end
IsEnd(table, node) == node \in table.end_nodes

\* Range::contains of the half-open desired_len
RangeContains(range, len) == range.start <= len /\ len < range.end

\* NodeSet::empty
NodesEmpty == << >>

\* NodeSet::contains
NodesContains(nodes, node) == \E k \in 1 .. Len(nodes) : nodes[k] = node

\* NodeSet::add
NodesAdd(nodes, node) == Append(nodes, node)

\* NodeSet::remove_last
NodesRemoveLast(nodes, node) == SubSeq(nodes, 1, Len(nodes) - 1)

\* a test for falseness that finds no node false
NothingIsFalse(table, nodes, node) == FALSE

\* engine.rs:166-174: the node is false against a node already rung
IsFalseAgainstRung(table, nodes, node) ==
    \E k \in 1 .. Len(table.falseness[node.section]) :
        NodesContains(nodes, Node(Mul(node.row, table.falseness[node.section][k][1]),
                                  table.falseness[node.section][k][2]))

\* a frame of recursive_compose: its arguments, where it is (at its start,
\* between two branches, or in the call of branch number branch) and the
\* nodes and calls of the engine when it was entered
Frame(node, len, depth, nodes, calls) ==
    [ node |-> node, len |-> len, depth |-> depth, at |-> "enter", branch |-> 0,
      entered |-> [ nodes |-> nodes, calls |-> calls ] ]

\* the frame that is running
TopFrame == fret.stack[Len(fret.stack)]

\* the frames after the running one has returned, and the record of it
Returned(why) ==
    [ fret EXCEPT !.stack = SubSeq(fret.stack, 1, Len(fret.stack) - 1),
                  !.returned = << [ why |-> why, depth |-> TopFrame.depth,
                                    branches |-> TopFrame.branch,
                                    entered |-> TopFrame.entered ] >> ]

\* Engine::new (engine.rs:127-135) for a table and the half-open range that
\* Table::compose (engine.rs:87-93) makes of the inclusive one
EngineInit ==
    /\ SearchIdle
    /\ BuilderIdle
    /\ fpc = "compose"
    /\ \E table \in Tables : \E lo \in 0 .. MaxDesiredLen : \E hi \in lo .. MaxDesiredLen :
          fargs = [ table |-> table,
                    desired_len |-> [ start |-> lo, end |-> hi + 1 ],
                    nodes |-> NodesEmpty,
                    calls |-> << >>,
                    nodes_considered |-> 0 ]
    /\ fret = [ stack |-> << >>, found |-> << >>, returned |-> << >> ]

\* engine.rs:137-138
Compose ==
    /\ fpc = "compose"
    /\ fpc' = "composing"
    /\ fret' = [ fret EXCEPT !.stack = << Frame(StartNode(fargs.table), 0, 0,
                                                fargs.nodes, fargs.calls) >> ]
    /\ fargs' = fargs
    /\ UNCHANGED rest_vars

\* engine.rs:149-157: a composition is found and printed
FoundComp ==
    /\ fpc = "composing"
    /\ TopFrame.at = "enter"
    /\ IsEnd(fargs.table, TopFrame.node)
    /\ RangeContains(fargs.desired_len, TopFrame.len)
    /\ fargs' = [ fargs EXCEPT !.nodes_considered = @ + 1 ]
    /\ fret' = [ Returned("found") EXCEPT
                   !.found = Append(fret.found,
                                    [ nodes |-> fargs.nodes, end_node |-> TopFrame.node,
                                      len |-> TopFrame.len, calls |-> fargs.calls ]) ]
    /\ fpc' = IF Len(fret.stack) = 1 THEN "composed" ELSE "composing"
    /\ UNCHANGED rest_vars

\* engine.rs:149-163: the composition is too long
TooLong ==
    /\ fpc = "composing"
    /\ TopFrame.at = "enter"
    /\ ~(IsEnd(fargs.table, TopFrame.node) /\ RangeContains(fargs.desired_len, TopFrame.len))
    /\ TopFrame.len >= fargs.desired_len.end
    /\ fargs' = [ fargs EXCEPT !.nodes_considered = @ + 1 ]
    /\ fret' = Returned("too long")
    /\ fpc' = IF Len(fret.stack) = 1 THEN "composed" ELSE "composing"
    /\ UNCHANGED rest_vars

\* engine.rs:149-174: the node is false
FalseNode ==
    /\ fpc = "composing"
    /\ TopFrame.at = "enter"
    /\ ~(IsEnd(fargs.table, TopFrame.node) /\ RangeContains(fargs.desired_len, TopFrame.len))
    /\ TopFrame.len < fargs.desired_len.end
    /\ IsFalseAgainstRung(fargs.table, fargs.nodes, TopFrame.node)
    /\ fargs' = [ fargs EXCEPT !.nodes_considered = @ + 1 ]
    /\ fret' = Returned("false")
    /\ fpc' = IF Len(fret.stack) = 1 THEN "composed" ELSE "composing"
    /\ UNCHANGED rest_vars

\* engine.rs:149-188: the node is added to the composition
AddNode ==
    /\ fpc = "composing"
    /\ TopFrame.at = "enter"
    /\ ~(IsEnd(fargs.table, TopFrame.node) /\ RangeContains(fargs.desired_len, TopFrame.len))
    /\ TopFrame.len < fargs.desired_len.end
    /\ ~IsFalseAgainstRung(fargs.table, fargs.nodes, TopFrame.node)
    /\ fargs' = [ fargs EXCEPT !.nodes_considered = @ + 1,
                               !.nodes = NodesAdd(fargs.nodes, TopFrame.node) ]
    /\ fret' = [ fret EXCEPT !.stack[Len(fret.stack)].at = "expand",
                             !.stack[Len(fret.stack)].branch = 1 ]
    /\ UNCHANGED fpc
    /\ UNCHANGED rest_vars

\* engine.rs:191-199: the call of the next branch is pushed and the branch
\* is entered
ExpandBranch ==
    /\ fpc = "composing"
    /\ TopFrame.at = "expand"
    /\ TopFrame.branch <= Len(fargs.table.expand[TopFrame.node.section])
    /\ LET branch == fargs.table.expand[TopFrame.node.section][TopFrame.branch]
           calls  == Append(fargs.calls, branch[1])
       IN  /\ fargs' = [ fargs EXCEPT !.calls = calls ]
           /\ fret' = [ fret EXCEPT
                          !.stack = Append([ fret.stack EXCEPT ![Len(fret.stack)].at = "called" ],
                                           Frame(Node(Mul(TopFrame.node.row, branch[2]), branch[3]),
                                                 TopFrame.len
                                                     + fargs.table.length[TopFrame.node.section],
                                                 TopFrame.depth + 1,
                                                 fargs.nodes, calls)) ]
    /\ UNCHANGED fpc
    /\ UNCHANGED rest_vars

\* the branch has returned and its call stays on the list
KeepCall ==
    /\ fpc = "composing"
    /\ TopFrame.at = "called"
    /\ fret' = [ fret EXCEPT !.stack[Len(fret.stack)].at = "expand",
                             !.stack[Len(fret.stack)].branch = @ + 1 ]
    /\ UNCHANGED << fpc, fargs >>
    /\ UNCHANGED rest_vars

\* engine.rs:201-203: the branch has returned and its call is popped
PopCall ==
    /\ fpc = "composing"
    /\ TopFrame.at = "called"
    /\ fargs' = [ fargs EXCEPT !.calls = SubSeq(fargs.calls, 1, Len(fargs.calls) - 1) ]
    /\ fret' = [ fret EXCEPT !.stack[Len(fret.stack)].at = "expand",
                             !.stack[Len(fret.stack)].branch = @ + 1 ]
    /\ UNCHANGED fpc
    /\ UNCHANGED rest_vars

\* engine.rs:191, 205-207: every branch is explored, the node is removed
ExploredAll ==
    /\ fpc = "composing"
    /\ TopFrame.at = "expand"
    /\ TopFrame.branch > Len(fargs.table.expand[TopFrame.node.section])
    /\ fargs' = [ fargs EXCEPT !.nodes = NodesRemoveLast(fargs.nodes, TopFrame.node) ]
    /\ fret' = [ Returned("explored") EXCEPT !.returned[1].branches = TopFrame.branch - 1 ]
    /\ fpc' = IF Len(fret.stack) = 1 THEN "composed" ELSE "composing"
    /\ UNCHANGED rest_vars

EngineNext ==
    \/ Compose
    \/ FoundComp
    \/ TooLong
    \/ FalseNode
    \/ AddNode
    \/ ExpandBranch
    \/ PopCall
    \/ ExploredAll

EngineSpec == EngineInit /\ [][EngineNext]_vars

(***************************************************************************)
(* composition.rs: Composition::rows.  Block (bellframe) and the path      *)
(* elements the search hands over follow sections 3, 4.1 and 5 of the      *)
(* design document.                                                        *)
(***************************************************************************)

\* the highest number of rows of one part
MaxPartLen == 8

\* A method of three bells: a lead of two rows, whose plain course is the
\* plain hunt (123 213 | 231 321 | 312 132)
HuntMethod == [ lead |-> << Rounds, << 2, 1, 3 >> >>, lead_head |-> << 2, 3, 1 >> ]

\* Method::lead_len
LeadLen(m) == Len(m.lead)

\* the transposition of the place notation of each call
CallTranspositions == << << 2, 1, 3 >>, << 3, 2, 1 >> >>

\* Option<CallIdx>::None
NoCall == 0

\* Block: the rows and the leftover row
Block(rows, leftover) == [ rows |-> rows, leftover |-> leftover ]

\* Block::with_leftover_row
WithLeftoverRow(row) == Block(<< >>, row)

\* the row at index i of a block, counted from 0; the leftover row follows
\* the last row
RowAt(block, i) == IF i < Len(block.rows) THEN block.rows[i + 1] ELSE block.leftover

\* Block::extend_range(other, from..to): the rows of the range, transposed
\* so that the first of them is the leftover row of `self`; the row after
\* the range becomes the leftover row
ExtendRange(self, other, from, to) ==
    LET transposition == Mul(self.leftover, Inv(RowAt(other, from)))
    IN  Block(self.rows \o [ k \in 1 .. to - from |-> Mul(transposition, other.rows[from + k]) ],
              Mul(transposition, RowAt(other, to)))

\* Block::extend_from_within(..to)
ExtendFromWithin(self, to) == ExtendRange(self, self, 0, to)

\* Method::plain_course: leads from rounds until the lead head is rounds
\* again
RECURSIVE CourseFrom(_, _)
CourseFrom(m, lh) ==
    LET rows == [ k \in 1 .. LeadLen(m) |-> Mul(lh, m.lead[k]) ]
        next == Mul(lh, m.lead_head)
    IN  IF next = Rounds THEN rows ELSE rows \o CourseFrom(m, next)

PlainCourse(m) == Block(CourseFrom(m, Rounds), Rounds)

\* PathElem (composition.rs:262-268)
PathElem(start_row, start_sub_lead_idx, length, call_to_end) ==
    [ start_row |-> start_row, start_sub_lead_idx |-> start_sub_lead_idx,
      length |-> length, call_to_end |-> call_to_end ]

\* a call that leaves the leftover row as the plain course has it
LeftoverAfterPlain(block, call_to_end) == block.leftover

\* composition.rs:179-187: a call changes the leftover row
LeftoverAfter(block, call_to_end) ==
    IF call_to_end = NoCall THEN block.leftover
    ELSE LET last_non_leftover_row == block.rows[Len(block.rows)]
         IN  Mul(last_non_leftover_row, CallTranspositions[call_to_end])

\* composition.rs:160-178: the rows of one path element are copied from the
\* plain course, in two pieces when the element wraps over the course head
ExtendWithElem(first_part, plain_course, elem) ==
    LET start_idx == elem.start_sub_lead_idx
        end_idx   == start_idx + elem.length
        len       == Len(plain_course.rows)
    IN  IF end_idx > len
        THEN ExtendRange(ExtendRange(first_part, plain_course, start_idx, len),
                         plain_course, 0, end_idx - len)
        ELSE ExtendRange(first_part, plain_course, start_idx, end_idx)

\* composition.rs:157-188: the first part after the first k path elements,
\* or the assertion of line 159 that failed
RECURSIVE FirstPart(_, _)
FirstPart(comp, k) ==
    IF k = 0 THEN [ block |-> WithLeftoverRow(comp.query.start_row), failed |-> "" ]
    ELSE LET before == FirstPart(comp, k - 1)
             elem   == comp.path[k]
         IN  IF before.failed # "" THEN before
             ELSE IF before.block.leftover # elem.start_row
             THEN [ block |-> before.block,
                    failed |-> "assertion failed: first_part.leftover_row() == elem.start_row" ]
             ELSE LET extended == ExtendWithElem(before.block, PlainCourse(HuntMethod), elem)
                  IN  [ block  |-> Block(extended.rows,
                                         LeftoverAfter(extended, elem.call_to_end)),
                        failed |-> "" ]

\* composition.rs:190-195: the other parts are copies of the first
RECURSIVE WithParts(_, _, _)
WithParts(first_part, part_len, copies) ==
    IF copies = 0 THEN first_part
    ELSE ExtendFromWithin(WithParts(first_part, part_len, copies - 1), part_len)

\* Query::num_parts: the size of the part-head group
NumParts(q) == Len(ClosureFromRounds(q.part_head))

\* Composition::rows: the block, or the assertion that failed
CompositionRows(comp) ==
    LET first_part == FirstPart(comp, Len(comp.path))
    IN  IF first_part.failed # "" THEN [ panic |-> first_part.failed ]
        ELSE LET part_len == Len(first_part.block.rows)
                 block    == WithParts(first_part.block, part_len, NumParts(comp.query) - 1)
             IN  IF Len(block.rows) # comp.length
                 THEN [ panic |-> "assertion failed: comp.len() == self.length()" ]
                 ELSE IF block.leftover # comp.query.end_row
                 THEN [ panic |-> "assertion failed: comp.leftover_row() == end_row" ]
                 ELSE [ value |-> block ]

\* The queries: a start row and an end row, the part head (a search of
\* several parts ends where it starts), and whether a composition may start
\* inside a lead
Queries ==
    { q \in [ start_row : { Rounds, << 3, 1, 2 >> },
              end_row : { Rounds, << 2, 3, 1 >>, << 3, 1, 2 >> },
              part_head : PartHeadRows, snap_start : BOOLEAN ] :
        q.part_head # Rounds => q.end_row = q.start_row }

\* the images of the end row under the part heads: the rows at which a part
\* can end
PartEnds(q) ==
    { Mul(ClosureFromRounds(q.part_head)[k], q.end_row) : k \in 1 .. NumParts(q) }

\* the rows of one part that the first k elements of a path cover
RECURSIVE RowsBefore(_, _)
RowsBefore(path, k) == IF k = 0 THEN 0 ELSE RowsBefore(path, k - 1) + path[k].length

PartLength(path) == RowsBefore(path, Len(path))

\* where the chunk of a path element ends: the index in the lead of the row
\* after it
EndSubLeadIdx(elem) == (elem.start_sub_lead_idx + elem.length) % LeadLen(HuntMethod)

\* the head of the lead a row at index idx is in
LeadHeadOf(row, idx) == Mul(row, Inv(HuntMethod.lead[idx + 1]))

\* the row after the chunk of a path element: the leads are rung plain, and
\* a call at the end of the chunk replaces the last change
RECURSIVE RowAfter(_, _, _, _)
RowAfter(lh, idx, length, call_to_end) ==
    IF length = 0 THEN Mul(lh, HuntMethod.lead[idx + 1])
    ELSE IF idx + 1 < LeadLen(HuntMethod) THEN RowAfter(lh, idx + 1, length - 1, call_to_end)
    ELSE IF length = 1 /\ call_to_end # NoCall
    THEN Mul(Mul(lh, HuntMethod.lead[idx + 1]), CallTranspositions[call_to_end])
    ELSE RowAfter(Mul(lh, HuntMethod.lead_head), 0, length - 1, call_to_end)

NextRow(elem) ==
    RowAfter(LeadHeadOf(elem.start_row, elem.start_sub_lead_idx), elem.start_sub_lead_idx,
             elem.length, elem.call_to_end)

\* A composition of a query that the search is putting together
RowsInit ==
    /\ SearchIdle
    /\ BuilderIdle
    /\ fpc = "path"
    /\ fargs \in [ query : Queries, path : { << >> }, length : { 0 } ]
    /\ fret = << >>

\* The search walks over a link to another chunk: a chunk starts at the row
\* the chunk before it leads to and ends at a lead end, in a call or plain,
\* or it ends inside a lead as the last chunk of a composition that
\* finishes there.  Only the first chunk can start inside a lead.
ExtendPath ==
    /\ fpc = "path"
    /\ \/ fargs.path = << >>
       \/ /\ fargs.path # << >>
          /\ EndSubLeadIdx(fargs.path[Len(fargs.path)]) = 0
    /\ \E length \in 1 .. Len(PlainCourse(HuntMethod).rows) :
       \E call_to_end \in 0 .. Len(CallTranspositions) :
       \E start_idx \in 0 .. LeadLen(HuntMethod) - 1 :
          LET start_row == IF fargs.path = << >> THEN fargs.query.start_row
                           ELSE NextRow(fargs.path[Len(fargs.path)])
              elem == PathElem(start_row, start_idx, length, call_to_end)
          IN  /\ start_idx # 0 => (fargs.path = << >> /\ fargs.query.snap_start)
              /\ call_to_end # NoCall => EndSubLeadIdx(elem) = 0
              /\ PartLength(fargs.path) + length <= MaxPartLen
              /\ fargs' = [ fargs EXCEPT !.path = Append(@, elem),
                                         !.length = @ + length * NumParts(fargs.query) ]
    /\ UNCHANGED << fpc, fret >>
    /\ UNCHANGED << search_data, abort_flag, pc, frontier, paths, next_seq, iter_count,
                    num_comps, updates, pops, truncs, last, run_no, prev_runs >>
    /\ UNCHANGED << layout, max_length, gpc, expanded_nodes, end_nodes, build_frontier,
                    start_nodes, source_graph, passes, limit, last_size, new_size,
                    ordering, rounds_run, ghist, multi_vars >>

\* The first part has come to a part head: the search has reached an end
\* link.  Composition::rows is called on the composition; the compositions
\* that the search emits are among these.
CallRows ==
    /\ fpc = "path"
    /\ fargs.path # << >>
    /\ NextRow(fargs.path[Len(fargs.path)]) \in PartEnds(fargs.query)
    /\ fret' = CompositionRows(fargs)
    /\ fpc' = "returned"
    /\ UNCHANGED fargs
    /\ UNCHANGED << search_data, abort_flag, pc, frontier, paths, next_seq, iter_count,
                    num_comps, updates, pops, truncs, last, run_no, prev_runs >>
    /\ UNCHANGED << layout, max_length, gpc, expanded_nodes, end_nodes, build_frontier,
                    start_nodes, source_graph, passes, limit, last_size, new_size,
                    ordering, rounds_run, ghist, multi_vars >>

RowsNext == ExtendPath \/ CallRows

RowsSpec == RowsInit /\ [][RowsNext]_vars

(***************************************************************************)
(* Properties                                                              *)
(***************************************************************************)

IsComp(u) == u.type = "Comp"

IsAborting(u) == u.type = "Aborting"

IsTruncating(u) == u.type = "Progress" /\ u.truncating_queue

CompsOf(us) == SelectSeq(us, IsComp)

HasAborting(us) == \E i \in 1 .. Len(us) : IsAborting(us[i])

\* a step of the worker while it is in the main loop
LoopStep == pc = "loop" /\ (pc' # "loop" \/ pops' = pops + 1)

\* the step reaches the abort check with a count that is due for a poll, and
\* the flag is set
PollReadsTrue ==
    /\ iter_count' = iter_count + 1
    /\ iter_count' % ITERS_BETWEEN_ABORT_CHECKS = 0
    /\ abort_flag

\* C1: the worker leaves the main loop exactly when the frontier is empty,
\* the number of compositions emitted has reached query.num_comps, or an
\* abort poll reads the flag as true; otherwise it pops and expands another
\* prefix.
C1_LeavesLoopExactlyWhen ==
    [][ LoopStep =>
          ( (pc' # "loop") <=>
              \/ frontier = {}
              \/ num_comps' >= query.num_comps
              \/ PollReadsTrue ) ]_vars

\* C1, for searches that ask for at least one composition: the same
\* equivalence.
C1_LeavesLoopWhenCompsWanted ==
    [][ (LoopStep /\ query.num_comps > 0) =>
          ( (pc' # "loop") <=>
              \/ frontier = {}
              \/ num_comps' >= query.num_comps
              \/ PollReadsTrue ) ]_vars

\* C2: a run never delivers more Update::Comp than query.num_comps, for
\* every query.num_comps including 0.
C2_AtMostNumComps == Len(CompsOf(updates)) <= query.num_comps

\* C3: an abort poll that reads the flag as true sends Update::Aborting and
\* leaves the loop; after Aborting, the run expands no prefix and sends no
\* Update::Comp.
C3_AbortPollAborts ==
    [][ (run_no' = run_no) =>
          /\ (LoopStep /\ PollReadsTrue) =>
                /\ Len(updates') = Len(updates) + 1 + 2 * (truncs' - truncs)
                                     + Len(CompsOf(updates')) - Len(CompsOf(updates))
                /\ IsAborting(updates'[Len(updates')])
                /\ pc' = "final"
          /\ HasAborting(updates) =>
                /\ pops' = pops
                /\ CompsOf(updates') = CompsOf(updates)
                /\ pc' # "loop" ]_vars

\* C3 witness: a run that was aborted after several expansions has returned
C3_Witness == pc = "returned" /\ HasAborting(updates) /\ pops >= 4

\* C4: when a search is aborted, the update stream contains
\* Update::Aborting and ends with Update::Complete.
C4_AbortEndsWithComplete ==
    (pc = "returned" /\ HasAborting(updates)) =>
        updates[Len(updates)].type = "Complete"

\* C5: on an empty graph (no start chunks) the search delivers no
\* composition and returns normally; it does not fail.
C5_EmptyGraphReturns ==
    graph.starts = << >> => (pc # "panicked" /\ CompsOf(updates) = << >>)

\* the last iteration went past the composition check to the memory check
MemChecked == last.popped # << >> /\ last.broke # "num_comps"

\* what a truncation to `len` prefixes leaves of `queue`: that many
\* prefixes of the queue, none of them ordered below a dropped one
KeepsHighest(kept, len, queue) ==
    /\ kept \subseteq queue
    /\ Cardinality(kept) = len
    /\ \A k \in kept : \A d \in queue \ kept : Cmp(k, d) # "Less"

\* truncate_queue on the frontier at hand, for every target length
TruncateQueueContract ==
    LET n == Cardinality(frontier)
    IN  /\ \A len \in 0 .. n : KeepsHighest(TruncateQueue(len, frontier), len, frontier)
        /\ \A len \in n .. n + 2 : TruncateQueue(len, frontier) = frontier

\* C6: after an expansion the frontier is truncated exactly when the memory
\* usage exceeds config.mem_limit; the truncation leaves the floor(len/2)
\* highest prefixes; truncate_queue with a target length not below the
\* queue length drops nothing.
C6_TruncatedWhenExceeds ==
    /\ MemChecked =>
          /\ last.truncated <=> last.mem_usage > config.mem_limit
          /\ last.truncated =>
                KeepsHighest(frontier, Cardinality(last.before) \div 2, last.before)
          /\ ~last.truncated => frontier = last.before
    /\ TruncateQueueContract

\* C6 as amended: the frontier is truncated exactly when the memory usage
\* has reached config.mem_limit (is greater than or equal to it); the rest
\* as in C6.
C6_TruncatedWhenReached ==
    /\ MemChecked =>
          /\ last.truncated <=> last.mem_usage >= config.mem_limit
          /\ last.truncated =>
                KeepsHighest(frontier, Cardinality(last.before) \div 2, last.before)
          /\ ~last.truncated => frontier = last.before
    /\ TruncateQueueContract

\* C6 witness: a queue of at least four prefixes was truncated when the
\* memory usage was exactly the limit
C6_Witness ==
    /\ MemChecked
    /\ last.truncated
    /\ last.mem_usage = config.mem_limit
    /\ Cardinality(last.before) >= 4
    /\ Cardinality(frontier) = Cardinality(last.before) \div 2

TruncatingAt == { i \in 1 .. Len(updates) : IsTruncating(updates[i]) }

\* C7: every truncation is bracketed by a Progress update with
\* truncating_queue = true, sent just before the truncation (it reports the
\* queue before it), and one with truncating_queue = false just after the
\* garbage collection (it reports the truncated queue); there is no other
\* Progress with truncating_queue = true.
C7_TruncationBracketed ==
    /\ Cardinality(TruncatingAt) = truncs
    /\ \A i \in TruncatingAt :
          /\ i < Len(updates)
          /\ updates[i + 1].type = "Progress"
          /\ ~updates[i + 1].truncating_queue
          /\ updates[i + 1].queue_len = updates[i].queue_len \div 2
          /\ updates[i + 1].iter_count = updates[i].iter_count
    /\ (MemChecked /\ last.truncated) =>
          /\ TruncatingAt # {}
          /\ LET i == CHOOSE k \in TruncatingAt : \A m \in TruncatingAt : m <= k
             IN  /\ updates[i].queue_len = Cardinality(last.before)
                 /\ updates[i + 1].queue_len = Cardinality(frontier)
                 /\ updates[i].iter_count = pops - 1
                 /\ last.comp # << >> => (i > 1 /\ IsComp(updates[i - 1]))
    /\ (MemChecked /\ ~last.truncated /\ truncs > 0) =>
          \A i \in TruncatingAt : updates[i].iter_count < pops - 1

\* C7 witness: a run with truncated queues, the last one in the same
\* iteration as a composition, and iterations without truncation
C7_Witness ==
    /\ truncs >= 2
    /\ pops > truncs
    /\ MemChecked
    /\ last.truncated
    /\ last.comp # << >>
    /\ Cardinality(last.before) >= 2

\* C8: the run that was started returns (after its final update), whatever
\* the graph, the length bound and the memory limit, also when the abort
\* flag is never set.
C8_RunReturns == (pc = "called") ~> (pc = "returned")

\* C8, for graphs with a start chunk: the run returns.
C8_RunReturnsWithStarts ==
    (pc = "called" /\ graph.starts # << >>) ~> (pc = "returned")

\* C9: after a truncation and the garbage collection, every prefix in the
\* frontier has the path it had before, the nodes kept are unchanged, and
\* no removed node was reachable from a surviving head.
C9_GcKeepsPaths ==
    (MemChecked /\ last.truncated) =>
        /\ \A p \in frontier :
              /\ Reachable(last.nodes_before, p.path_head) \subseteq DOMAIN paths.nodes
              /\ PathOf(paths.nodes, p.path_head) = PathOf(last.nodes_before, p.path_head)
              /\ Len(PathOf(paths.nodes, p.path_head)) >= 1
              /\ \A k \in 1 .. Len(PathOf(paths.nodes, p.path_head)) :
                    PathOf(paths.nodes, p.path_head)[k][1] \in graph.chunks
        /\ DOMAIN paths.nodes \subseteq DOMAIN last.nodes_before
        /\ \A n \in DOMAIN paths.nodes : paths.nodes[n] = last.nodes_before[n]
        /\ \A n \in DOMAIN last.nodes_before \ DOMAIN paths.nodes :
              \A p \in frontier : n \notin Reachable(last.nodes_before, p.path_head)

\* C9 witness: a collection removed nodes and left several prefixes, one
\* with a path longer than one chunk
C9_Witness ==
    /\ MemChecked
    /\ last.truncated
    /\ DOMAIN paths.nodes # DOMAIN last.nodes_before
    /\ Cardinality(frontier) >= 2
    /\ \E p \in frontier : Len(PathOf(paths.nodes, p.path_head)) >= 2

CompSet(run) == { run.comps[k].comp : k \in 1 .. Len(run.comps) }

\* C11: Config does not change which compositions are generated: runs with
\* the same Parameters and different Config values (different mem_limit)
\* that were not aborted deliver the same set of compositions.
C11_ConfigKeepsComps ==
    \A i \in 1 .. Len(prev_runs) : \A j \in 1 .. Len(prev_runs) :
        (~prev_runs[i].aborted /\ ~prev_runs[j].aborted) =>
            CompSet(prev_runs[i]) = CompSet(prev_runs[j])

\* The valid compositions of graph g that go on from a path ending in chunk
\* c (design document, 4.5, Completion): the links lead from a start to the
\* end, the rotations sum to 0 modulo the number of parts, the length is in
\* range, no two chunks are false against each other, and every required
\* chunk is there.  `path` holds the (chunk, link) entries so far.
RECURSIVE CompsFrom(_, _, _, _, _, _, _)
CompsFrom(g, path, c, visited, length, score, rot) ==
    LET links == g.succ[c]
        done  == { [ path   |-> Append(path, << End, i >>),
                     length |-> length,
                     score  |-> score,
                     rot    |-> (rot + links[i].rot) % g.parts ] :
                   i \in { k \in 1 .. Len(links) :
                             /\ links[k].to = End
                             /\ (rot + links[k].rot) % g.parts = 0
                             /\ length >= g.min_len
                             /\ length <= g.max_len
                             /\ g.required \subseteq visited } }
        more  == { i \in 1 .. Len(links) :
                     /\ links[i].to # End
                     /\ length + g.len[links[i].to] <= g.max_len
                     /\ g.false[links[i].to] \cap visited = {}
                     /\ \A v \in visited : links[i].to \notin g.false[v] }
    IN  done \cup UNION { CompsFrom(g, Append(path, << links[i].to, i >>), links[i].to,
                                    visited \cup { links[i].to },
                                    length + g.len[links[i].to],
                                    score + g.score[links[i].to],
                                    (rot + links[i].rot) % g.parts) : i \in more }

ValidComps(g) ==
    UNION { CompsFrom(g, << << g.starts[i].to, i >> >>, g.starts[i].to, { g.starts[i].to },
                      g.len[g.starts[i].to], g.score[g.starts[i].to],
                      g.starts[i].rot % g.parts) : i \in 1 .. Len(g.starts) }

\* the compositions delivered so far in this run
Emitted == { updates[k].comp : k \in { i \in 1 .. Len(updates) : IsComp(updates[i]) } }

\* the run left the loop at best_first.rs:54
StoppedAtNumComps == last.broke = "num_comps" /\ pc \in { "final", "returned" }

\* C12: when the search stops because num_comps compositions were emitted,
\* the emitted compositions are the num_comps best: no valid composition of
\* the graph that was not emitted has a strictly higher score than an
\* emitted one.
C12_EmittedAreBest ==
    StoppedAtNumComps =>
        \A v \in ValidComps(graph) \ Emitted : \A e \in Emitted : v.score <= e.score

\* C12 on the searches whose queue is never truncated
C12_EmittedAreBestNoLimit ==
    (StoppedAtNumComps /\ config.mem_limit = NoMemLimit) =>
        \A v \in ValidComps(graph) \ Emitted : \A e \in Emitted : v.score <= e.score

\* every composition delivered is a valid composition of the graph
EmittedAreValid == Emitted \subseteq ValidComps(graph)

\* the four components of a size, in order
Components(sz) == << sz.num_nodes, sz.num_links, sz.num_starts, sz.num_ends >>

SomeSmaller(a, b) == \E i \in 1 .. 4 : Components(a)[i] < Components(b)[i]

SomeLarger(a, b) == \E i \in 1 .. 4 : Components(a)[i] > Components(b)[i]

\* C14: Size::partial_cmp is the component-wise partial order: Less iff no
\* component of self exceeds other's and some component is smaller; Greater
\* iff no component is smaller and some is larger; Equal iff all four are
\* equal; None iff some component is smaller and another is larger; and
\* a.partial_cmp(b) = Less iff b.partial_cmp(a) = Greater.
C14_ComponentWiseOrder ==
    gpc = "compared" =>
        /\ ordering = "Less" <=>
              (~SomeLarger(new_size, last_size) /\ SomeSmaller(new_size, last_size))
        /\ ordering = "Greater" <=>
              (~SomeSmaller(new_size, last_size) /\ SomeLarger(new_size, last_size))
        /\ ordering = "Equal" <=> Components(new_size) = Components(last_size)
        /\ ordering = "None" <=>
              (SomeSmaller(new_size, last_size) /\ SomeLarger(new_size, last_size))
        /\ ordering = "Less" <=> ghist[1] = "Greater"

\* C14 witness: two sizes that differ in num_ends only have been compared
C14_Witness ==
    /\ gpc = "compared"
    /\ new_size.num_ends < last_size.num_ends
    /\ new_size.num_nodes = last_size.num_nodes
    /\ new_size.num_links = last_size.num_links
    /\ new_size.num_starts = last_size.num_starts
    /\ ordering = "Less"

\* the start node ids of the layout
StartIds(lay) ==
    { StandardId(lay.starts[i].course_head, lay.starts[i].row_idx, TRUE) :
        i \in 1 .. Len(lay.starts) }

\* the ids that the segment links of id lead to
LinkedFrom(lay, id) ==
    { GetSegment(lay, id).links[i][2] : i \in 1 .. Len(GetSegment(lay, id).links) }

\* The pairs (node id, rows before the node) over all paths of segment links
\* from a start node on which at most `max` rows come before the last node
RECURSIVE PathsBefore(_, _, _)
PathsBefore(lay, max, found) ==
    LET more == UNION { { << v, ud[2] + GetSegment(lay, ud[1]).length >> :
                            v \in LinkedFrom(lay, ud[1]) } : ud \in found }
        next == found \cup { vd \in more : vd[2] <= max }
    IN  IF next = found THEN found ELSE PathsBefore(lay, max, next)

AllPathsBefore(lay, max) == PathsBefore(lay, max, { << st, 0 >> : st \in StartIds(lay) })

\* The pairs (node id, rows on the path, the node included) over the paths
\* from a start node on which every node keeps the sum within `max`
PathsWithin(lay, max) ==
    { << ud[1], ud[2] + GetSegment(lay, ud[1]).length >> :
        ud \in { x \in AllPathsBefore(lay, max) : x[2] + GetSegment(lay, x[1]).length <= max } }

\* the least number of rows before the node among the pairs of `all`
MinBefore(all, id) ==
    LET ds == { ud[2] : ud \in { x \in all : x[1] = id } }
    IN  CHOOSE d \in ds : \A e \in ds : d <= e

GraphNodes == source_graph.nodes

\* C16: from_layout puts a node id in the graph iff there is a path of
\* segment links from some start node to it along which the sum of the
\* segment lengths of all nodes on the path, the node itself included, is
\* at most max_length; no other node is in the graph.
C16_NodesWithinMaxLength ==
    gpc = "built" =>
        DOMAIN GraphNodes = { p[1] : p \in PathsWithin(layout, max_length) }

\* C16 witness: a graph of several nodes was built, and a link of one of
\* its nodes leads to a node that the length bound keeps out
C16_Witness ==
    /\ gpc = "built"
    /\ Cardinality(DOMAIN GraphNodes) >= 4
    /\ \E a \in DOMAIN GraphNodes : \E i \in 1 .. Len(GraphNodes[a].successors) :
          GraphNodes[a].successors[i].id \notin DOMAIN GraphNodes
    /\ \E a \in DOMAIN GraphNodes :
          GraphNodes[a].lb_distance_from_rounds + GraphNodes[a].length = max_length

\* C17: for every node of the built graph, lb_distance_from_rounds is the
\* minimum, over all paths from any start node to it, of the sum of the
\* segment lengths of the nodes before it (0 for a start node); each node
\* is expanded at most once, at that minimum distance.
C17_DistanceIsMinimum ==
    \A all \in { AllPathsBefore(layout, max_length) } :
        /\ \A e \in BagToSet(ghist) :
              /\ CopiesIn(e, ghist) = 1
              /\ \A f \in BagToSet(ghist) : f[1] = e[1] => f = e
              /\ e[2] = MinBefore(all, e[1])
        /\ gpc = "built" =>
              \A id \in DOMAIN GraphNodes :
                 /\ GraphNodes[id].lb_distance_from_rounds = MinBefore(all, id)
                 /\ id \in StartIds(layout) => GraphNodes[id].lb_distance_from_rounds = 0
                 /\ << id, GraphNodes[id].lb_distance_from_rounds >> \in BagToSet(ghist)

\* C17 witness: a node of the built graph is reached over paths with
\* different numbers of rows before it, and was popped more than once
C17_Witness ==
    /\ gpc = "built"
    /\ \E id \in DOMAIN GraphNodes :
          /\ GraphNodes[id].lb_distance_from_rounds > 0
          /\ \E x \in AllPathsBefore(layout, max_length) :
                x[1] = id /\ x[2] > GraphNodes[id].lb_distance_from_rounds

\* how many of the links in the bag go to or come from `id` over layout
\* link `source_idx`
CountInBag(bag, id, source_idx) ==
    LET ls == { l \in BagToSet(bag) : l.id = id /\ l.source_idx = source_idx }
    IN  IF ls = {} THEN 0
        ELSE LET l == CHOOSE x \in ls : TRUE
             IN  IF Cardinality(ls) = 1 THEN CopiesIn(l, bag) ELSE -1

CountInSeq(seq, id, source_idx) ==
    Cardinality({ i \in 1 .. Len(seq) : seq[i].id = id /\ seq[i].source_idx = source_idx })

\* C18: after from_layout, predecessors mirror successors: for all nodes a
\* and b of the graph and every link index s, b.predecessors contains a
\* link (id a, source_idx s) exactly as many times as a.successors contains
\* a link (id b, source_idx s), and no predecessor link names a node that
\* is absent from the graph.
C18_PredecessorsMirrorSuccessors ==
    gpc = "built" =>
        /\ \A a \in DOMAIN GraphNodes : \A b \in DOMAIN GraphNodes :
              \A s \in 1 .. Len(layout.links) :
                 CountInBag(GraphNodes[b].predecessors, a, s)
                     = CountInSeq(GraphNodes[a].successors, b, s)
        /\ \A b \in DOMAIN GraphNodes : \A l \in BagToSet(GraphNodes[b].predecessors) :
              /\ l.id \in DOMAIN GraphNodes
              /\ l.source_idx \in 1 .. Len(layout.links)

\* C18 witness: a node of the built graph has predecessor links from two
\* nodes, two links lead from one node to the same node, and a successor
\* link leads out of the graph
C18_Witness ==
    /\ gpc = "built"
    /\ \E b \in DOMAIN GraphNodes :
          Cardinality({ l.id : l \in BagToSet(GraphNodes[b].predecessors) }) >= 2
    /\ \E b \in DOMAIN GraphNodes : \E l, m \in BagToSet(GraphNodes[b].predecessors) :
          l.id = m.id /\ l.source_idx # m.source_idx
    /\ \E a \in DOMAIN GraphNodes : \E i \in 1 .. Len(GraphNodes[a].successors) :
          GraphNodes[a].successors[i].id \notin DOMAIN GraphNodes

\* C19: falseness in the built graph is symmetric: for all chunks a and b
\* of the graph, a is in b's false list iff b is in a's false list.
C19_FalsenessSymmetric ==
    gpc \in { "preds", "built" } =>
        \A a \in DOMAIN GraphNodes : \A b \in DOMAIN GraphNodes :
            a \in GraphNodes[b].false_nodes <=> b \in GraphNodes[a].false_nodes

\* C19 witness: chunks of two classes are false against each other, and
\* chunks of the graph are true against each other
C19_Witness ==
    /\ gpc = "built"
    /\ \E a \in DOMAIN GraphNodes : \E b \in GraphNodes[a].false_nodes :
          a.idx # b.idx /\ a.lh # b.lh
    /\ \E a \in DOMAIN GraphNodes : \E b \in DOMAIN GraphNodes :
          IsStandard(a) /\ IsStandard(b) /\ b \notin GraphNodes[a].false_nodes

\* the ids and lengths of the nodes of the graph (graph.rs:480)
NodeIdsAndLengths == { << id, GraphNodes[id].length >> : id \in DOMAIN GraphNodes }

\* C20: the falseness table is exact: are_false(id_a, id_b), which is
\* id_a.lead_head^-1 * id_b.lead_head in table[(class_a, class_b)], is true
\* iff the rows of chunk id_a and the rows of chunk id_b share at least one
\* row; in particular every chunk is false against itself.  Stated for the
\* chunks of every lead head in the classes of the graph, and for the
\* false lists that from_layout fills from the query.
C20_FalsenessTableExact ==
    gpc = "built" =>
        \A table \in { FalsenessTable(layout, NodeIdsAndLengths) } :
            /\ \A ca \in Classes(NodeIdsAndLengths) : \A cb \in Classes(NodeIdsAndLengths) :
                  \A lha \in Rows : \A lhb \in Rows :
                     AreFalse(table, StandardId(lha, ca[1], FALSE), ca[2],
                                     StandardId(lhb, cb[1], FALSE), cb[2])
                       <=> ChunkRows(layout, StandardId(lha, ca[1], FALSE), ca[2])
                             \cap ChunkRows(layout, StandardId(lhb, cb[1], FALSE), cb[2]) # {}
            /\ \A a \in DOMAIN GraphNodes : \A b \in DOMAIN GraphNodes :
                  (IsStandard(a) /\ IsStandard(b)) =>
                     ( b \in GraphNodes[a].false_nodes
                         <=> ChunkRows(layout, a, GraphNodes[a].length)
                               \cap ChunkRows(layout, b, GraphNodes[b].length) # {} )
            /\ \A a \in DOMAIN GraphNodes : IsStandard(a) => a \in GraphNodes[a].false_nodes

\* C20 witness: the graph has chunks of two classes; two chunks of
\* different classes and lead heads share a row, and two chunks share none
C20_Witness ==
    /\ gpc = "built"
    /\ Cardinality(Classes(NodeIdsAndLengths)) >= 2
    /\ \E a \in DOMAIN GraphNodes : \E b \in DOMAIN GraphNodes :
          /\ IsStandard(a) /\ IsStandard(b)
          /\ a.idx # b.idx /\ a.lh # b.lh
          /\ ChunkRows(layout, a, GraphNodes[a].length)
                \cap ChunkRows(layout, b, GraphNodes[b].length) # {}
          /\ b \in GraphNodes[a].false_nodes
    /\ \E a \in DOMAIN GraphNodes : \E b \in DOMAIN GraphNodes :
          /\ IsStandard(a) /\ IsStandard(b)
          /\ ChunkRows(layout, a, GraphNodes[a].length)
                \cap ChunkRows(layout, b, GraphNodes[b].length) = {}
          /\ b \notin GraphNodes[a].false_nodes

\* the size after the round is strictly smaller than the size before it, or
\* the two are incomparable
SmallerOrIncomparable(round) == SomeSmaller(round.after, round.before)

\* C13: optimise_with_iter_limit returns right after round k iff k is the
\* first round whose resulting size is not strictly smaller than the size
\* before it (Equal or Greater), or k = limit; a round whose size is strictly
\* smaller or incomparable is followed by another round while fewer than
\* limit rounds have run.  The sizes of the rounds are the sizes of the graph.
C13_ReturnsAtFirstNotSmaller ==
    \A c \in 1 .. Len(ghist) :
        LET call == ghist[c]
            n    == Len(call.rounds)
        IN  /\ n <= call.limit
            /\ \A k \in 1 .. n - 1 :
                  /\ SmallerOrIncomparable(call.rounds[k])
                  /\ call.rounds[k + 1].before = call.rounds[k].after
            /\ n > 0 => /\ call.rounds[1].before = SizeOf(call.input)
                        /\ call.rounds[n].after = SizeOf(call.output)
            /\ call.returned <=>
                  (n = call.limit \/ (n > 0 /\ ~SmallerOrIncomparable(call.rounds[n])))
            /\ c < Len(ghist) => call.returned
            /\ c = Len(ghist) => /\ call.returned <=> gpc = "optimised"
                                 /\ n = rounds_run
                                 /\ call.output = source_graph

\* C13 witness: a call has returned after its third round, below its limit:
\* the first round left an incomparable size and the third a larger one
C13_Witness ==
    /\ gpc = "optimised"
    /\ rounds_run = 3
    /\ limit = OptimiseLimit
    /\ LET rounds == ghist[Len(ghist)].rounds
       IN  /\ PartialCmp(rounds[1].after, rounds[1].before) = "None"
           /\ ordering = "Greater"

\* the passes only remove chunks, links, starts or ends or tighten bounds
OnlyRemoves(ps) == \A i \in 1 .. Len(ps) : ps[i] # "clone_start"

FinalClasses == EquivClasses(class_by_id)

\* to_multipart has gone through class_by_id with a part head other than rounds
Classed == gpc \in { "multipart", "panicked" } /\ part_heads # << >>

\* C21: with a part head other than rounds that generates P part heads,
\* every equivalence class whose id is a standard node id has exactly P
\* members, for every source graph that from_layout returns.
C21_StandardClassesHavePMembers ==
    Classed =>
        \A id \in DOMAIN FinalClasses :
            IsStandard(id) => Cardinality(FinalClasses[id]) = Len(part_heads)

\* to_multipart has returned a graph of more than one part
Multiparted == gpc = "multipart" /\ part_heads # << >>

\* C22: every merged node of the multi-part graph has the length of its
\* source node (the member of rotation 0, whose id is the id of the class)
\* multiplied by the number P of part heads, and its method counts multiplied
\* by P, also when members of its class are absent from the source graph.
C22_LengthTimesParts ==
    Multiparted =>
        \A id \in DOMAIN multipart.nodes :
            LET source == source_graph.nodes[id]
                merged == multipart.nodes[id]
            IN  /\ merged.length = source.length * Len(part_heads)
                /\ merged.method_counts =
                      [ i \in DOMAIN source.method_counts |->
                          source.method_counts[i] * Len(part_heads) ]

\* the rotation r > 0 for which the id is the image of a start under part
\* head r, as a non-start; 0 if there is none
PartHeadImageRot(id) ==
    LET rots == { r \in 1 .. Len(part_heads) - 1 :
                    \E i \in 1 .. Len(source_graph.start_nodes) :
                        id = SetStart(PreMultiply(source_graph.start_nodes[i][1],
                                                  part_heads[r + 1]), FALSE) }
    IN  IF rots = {} THEN 0 ELSE CHOOSE r \in rots : TRUE

\* the source links of a node whose target has a class, in their order
LinksWithClass(node) == SelectSeq(node.successors, LAMBDA l : l.id \in DOMAIN class_by_id)

\* C23: every successor link of class(x) comes from a source link x -> y of
\* the member x of rotation 0 and points to class(y) with the rotation of y
\* in its class (y is the image of the id of its class under that part head);
\* a link whose target is a part-head image of a start points to the
\* zero-length end instead, with the rotation of the image; the source links
\* whose target has no class are dropped.
C23_SuccessorLinksRewritten ==
    Multiparted =>
        \A x \in DOMAIN multipart.nodes :
            LET merged == multipart.nodes[x].successors
                source == LinksWithClass(source_graph.nodes[x])
            IN  /\ Len(merged) = Len(source)
                /\ \A i \in 1 .. Len(merged) :
                      LET y == source[i].id
                          l == merged[i]
                      IN  /\ l.source_idx = source[i].source_idx
                          /\ l.rotation \in 0 .. Len(part_heads) - 1
                          /\ IF PartHeadImageRot(y) # 0
                             THEN l.id = ZeroLengthEnd /\ l.rotation = PartHeadImageRot(y)
                             ELSE /\ l.id \in DOMAIN multipart.nodes
                                  /\ y = PreMultiply(l.id, part_heads[l.rotation + 1])

\* C23 witness: a multi-part graph has a link to the zero-length end with a
\* rotation other than 0 that comes from a link to a part-head image of a
\* start, and a link to a standard class with a rotation other than 0
C23_Witness ==
    /\ Multiparted
    /\ \E x \in DOMAIN multipart.nodes :
          \E i \in 1 .. Len(multipart.nodes[x].successors) :
              /\ multipart.nodes[x].successors[i].id = ZeroLengthEnd
              /\ multipart.nodes[x].successors[i].rotation # 0
              /\ IsStandard(LinksWithClass(source_graph.nodes[x])[i].id)
    /\ \E x \in DOMAIN multipart.nodes :
          \E i \in 1 .. Len(multipart.nodes[x].successors) :
              /\ IsStandard(multipart.nodes[x].successors[i].id)
              /\ multipart.nodes[x].successors[i].rotation # 0

\* the members of a class that are nodes of the source graph
MembersOf(id) == { m.id : m \in SourceNodes(source_graph, FinalClasses[id]) }

\* some source member of class a is false against some source member of
\* class b
SomeMemberFalse(a, b) ==
    \E ma \in MembersOf(a) : \E mb \in MembersOf(b) :
        mb \in source_graph.nodes[ma].false_nodes

\* C24: in the multi-part graph class(a) lists class(b) as false iff some
\* source member of class a is false against some source member of class b.
C24_ClassFalseness ==
    Multiparted =>
        \A a \in DOMAIN multipart.nodes : \A b \in DOMAIN multipart.nodes :
            b \in multipart.nodes[a].false_nodes <=> SomeMemberFalse(a, b)

\* the link the k-th entry of a path was reached over: a start link for the
\* first entry, then a successor link of the chunk before
LinkOf(g, path, k) ==
    IF k = 1 THEN g.starts[path[1][2]] ELSE g.succ[path[k - 1][1]][path[k][2]]

\* the sum of ph_rotation over the first k links of a path
RECURSIVE RotationSum(_, _, _)
RotationSum(g, path, k) ==
    IF k = 0 THEN 0 ELSE RotationSum(g, path, k - 1) + LinkOf(g, path, k).rot

\* C25: for every composition emitted on a P-part graph, the ph_rotation of
\* the links of its path (start link and end link included) sum to 0
\* modulo P.
C25_RotationsSumToZero ==
    \A c \in Emitted :
        /\ \A k \in 1 .. Len(c.path) : LinkOf(graph, c.path, k).to = c.path[k][1]
        /\ c.path[Len(c.path)][1] = End
        /\ RotationSum(graph, c.path, Len(c.path)) % graph.parts = 0

\* C25 witness: a composition was emitted on a graph of more than one part
\* whose path has links of rotation other than 0
C25_Witness ==
    /\ graph.parts > 1
    /\ \E c \in Emitted :
          /\ \E k \in 1 .. Len(c.path) : LinkOf(graph, c.path, k).rot % graph.parts # 0
          /\ Len(c.path) >= 3

\* the chunks of a composition's path, in order, without the end
ChunksOf(c) == [ k \in 1 .. Len(c.path) - 1 |-> c.path[k][1] ]

\* no chunk of the sequence is there twice, and none is in the false_chunks
\* of another
IsTrue(g, chunks) ==
    \A i \in 1 .. Len(chunks) : \A j \in 1 .. Len(chunks) :
        i # j => /\ chunks[i] \in g.chunks
                 /\ chunks[i] # chunks[j]
                 /\ chunks[i] \notin g.false[chunks[j]]

\* C26: every composition emitted is true: no chunk of its path is in the
\* false_chunks of another chunk of the path and no chunk is visited twice,
\* also after a truncation of the queue and a garbage collection of the
\* paths.
C26_EmittedAreTrue == \A c \in Emitted : IsTrue(graph, ChunksOf(c))

\* C26 witness: after a truncation with garbage collection, a composition
\* of several chunks is emitted on a graph that has chunks false against
\* each other, and a link of its last chunks leads to a chunk false against
\* the path
C26_Witness ==
    /\ truncs >= 1
    /\ Len(updates) >= 2
    /\ IsComp(updates[Len(updates)])
    /\ \E i \in 1 .. Len(updates) - 1 : IsTruncating(updates[i])
    /\ LET chunks == ChunksOf(updates[Len(updates)].comp)
       IN  /\ Len(chunks) >= 2
           /\ \E k \in 1 .. Len(chunks) :
                 \E i \in 1 .. Len(graph.succ[chunks[k]]) :
                     LET to == graph.succ[chunks[k]][i].to
                     IN  /\ to # End
                         /\ to \notin { chunks[j] : j \in 1 .. Len(chunks) }
                         /\ graph.false[to] \cap { chunks[j] : j \in 1 .. Len(chunks) } # {}

\* the chunks of a sequence of (chunk, link) entries
ChunkSeq(path) == [ k \in 1 .. Len(path) |-> path[k][1] ]

\* the sum of the lengths of the first k chunks of a sequence of chunks
RECURSIVE SumLens(_, _, _)
SumLens(g, chunks, k) ==
    IF k = 0 THEN 0 ELSE SumLens(g, chunks, k - 1) + g.len[chunks[k]]

\* C27: every composition emitted has a length within the length range,
\* which is the sum of the lengths of its chunks, and every prefix in the
\* frontier has a length of at most the maximum.
C27_LengthsInRange ==
    /\ \A c \in Emitted :
          /\ graph.min_len <= c.length
          /\ c.length <= graph.max_len
          /\ c.length = SumLens(graph, ChunksOf(c), Len(c.path) - 1)
    /\ \A p \in frontier :
          /\ p.length <= graph.max_len
          /\ p.length = SumLens(graph, ChunkSeq(PathOf(paths.nodes, p.path_head)),
                                 Len(PathOf(paths.nodes, p.path_head)))

\* C27 witness: on a graph with a minimum length, a composition of the
\* maximum length was emitted and the frontier holds a prefix of the maximum
\* length
C27_Witness ==
    /\ graph.min_len > 0
    /\ \E c \in Emitted : c.length = graph.max_len
    /\ \E p \in frontier : p.length = graph.max_len

\* the least q with q * d >= n
Ceil(n, d) == CHOOSE q \in 0 .. n : q * d >= n /\ \A r \in 0 .. n : r * d >= n => q <= r

Max(a, b) == IF a >= b THEN a ELSE b

\* num_leads_covered has returned a value for a chunk of at least one row
LeadsCounted == fpc = "returned" /\ "lead_len" \in DOMAIN fargs /\ fargs.length >= 1

\* C29: for lead_len >= 1, 0 <= start < lead_len and length >= 1,
\* num_leads_covered(lead_len, start, length) is
\* 1 + ceil(max(length - (lead_len - start), 0) / lead_len); hence it is 1
\* for (L, 0, L), 2 for (L, k, L) with 0 < k < L, and 1 for (L, k, L - k).
C29_NumLeadsCovered ==
    LeadsCounted =>
        LET L == fargs.lead_len
            k == fargs.start_sub_lead_idx
            n == fargs.length
        IN  /\ "value" \in DOMAIN fret
            /\ fret.value = 1 + Ceil(Max(n - (L - k), 0), L)
            /\ (k = 0 /\ n = L) => fret.value = 1
            /\ (k > 0 /\ n = L) => fret.value = 2
            /\ n = L - k => fret.value = 1

\* C29 witness: a chunk that starts inside a lead, runs over the end of the
\* lead and ends inside a later lead covers three leads or more
C29_Witness ==
    /\ LeadsCounted
    /\ fargs.start_sub_lead_idx > 0
    /\ fargs.length > fargs.lead_len - fargs.start_sub_lead_idx
    /\ (fargs.length - (fargs.lead_len - fargs.start_sub_lead_idx)) % fargs.lead_len # 0
    /\ fret.value >= 3

\* is_subset_of has returned
SubsetTested == fpc = "returned" /\ "self" \in DOMAIN fargs

\* every row matched by mask a is matched by mask b
MatchedRowsWithin(a, b) ==
    \A row \in RowsOf(MaskStage(a)) : Matches(a, row) => Matches(b, row)

\* C30: for masks a and b of the same stage in which each bell is there at
\* most once, a.is_subset_of(b) is true iff every row matched by a is
\* matched by b; it is false when the stages differ.
C30_SubsetIffRowsWithin ==
    SubsetTested =>
        IF MaskStage(fargs.self) = MaskStage(fargs.other)
        THEN fret.value <=> MatchedRowsWithin(fargs.self, fargs.other)
        ELSE ~fret.value

\* Composition::rows has been called on an emitted composition
RowsCalled == fpc = "returned" /\ "query" \in DOMAIN fargs

\* the row at index j of the chunk of a path element, as the method has it
ChunkRow(elem, j) ==
    RowAfter(LeadHeadOf(elem.start_row, elem.start_sub_lead_idx), elem.start_sub_lead_idx,
             j, NoCall)

\* C28: Composition::rows rebuilds the rows from the path: the first row is
\* query.start_row, each path element starts at the leftover row reached by
\* the elements before it and contributes the rows of its chunk, the block
\* has composition.length rows over all parts, and the final leftover row
\* is query.end_row; no assertion fails for an emitted composition.
C28_RowsRebuilt ==
    RowsCalled =>
        /\ "value" \in DOMAIN fret
        /\ LET block == fret.value
               path  == fargs.path
           IN  /\ RowAt(block, 0) = fargs.query.start_row
               /\ \A k \in 1 .. Len(path) :
                     /\ RowAt(block, RowsBefore(path, k - 1)) = path[k].start_row
                     /\ \A j \in 0 .. path[k].length - 1 :
                           RowAt(block, RowsBefore(path, k - 1) + j) = ChunkRow(path[k], j)
                     /\ RowAt(FirstPart(fargs, k).block, RowsBefore(path, k)) = NextRow(path[k])
               /\ Len(block.rows) = fargs.length
               /\ Len(block.rows) = NumParts(fargs.query) * PartLength(path)
               /\ block.leftover = fargs.query.end_row

\* C28 witness: the rows of a composition of several parts were rebuilt
\* whose path starts inside a lead and has a chunk that ends in a call
\* before another chunk
C28_Witness ==
    /\ RowsCalled
    /\ "value" \in DOMAIN fret
    /\ NumParts(fargs.query) > 1
    /\ NextRow(fargs.path[Len(fargs.path)]) = fargs.query.end_row
    /\ Len(fargs.path) >= 3
    /\ fargs.path[1].start_sub_lead_idx > 0
    /\ \E k \in 1 .. Len(fargs.path) - 1 : fargs.path[k].call_to_end # NoCall
    /\ \E k \in 1 .. Len(fargs.path) : fargs.path[k].length > LeadLen(HuntMethod)

\* a composition whose only chunk wraps over the course head
WrapsOverCourseHead ==
    /\ RowsCalled
    /\ "value" \in DOMAIN fret
    /\ \E k \in 1 .. Len(fargs.path) :
          fargs.path[k].start_sub_lead_idx + fargs.path[k].length
              > Len(PlainCourse(HuntMethod).rows)

\* the last operation on the mask was op
MaskOp(op) == fpc = "mask_returned" /\ fret.op = op

\* some row is matched by both masks
HaveCommonRow(a, b) ==
    \E row \in RowsOf(MaskStage(a)) : Matches(a, row) /\ Matches(b, row)

\* C31: for masks a and b of the same stage with each bell at most once,
\* a.intersect(b) is Some(m) exactly when some row is matched by both, which
\* is exactly when a.is_compatible_with(b) and b.is_compatible_with(a) are
\* true; and then m matches a row iff both a and b match it
C31_IntersectIsCommonRows ==
    (MaskOp("intersect") /\ MaskStage(fret.self) = MaskStage(fret.other)) =>
        LET a == fret.self
            b == fret.other
        IN  /\ (fret.result # << >>) <=> HaveCommonRow(a, b)
            /\ IsCompatibleWith(a, b) <=> HaveCommonRow(a, b)
            /\ IsCompatibleWith(b, a) <=> HaveCommonRow(a, b)
            /\ fret.result # << >> =>
                  \A row \in RowsOf(MaskStage(a)) :
                      Matches(fret.result[1], row) <=> (Matches(a, row) /\ Matches(b, row))

\* C31 witness: two masks that fix different bells, neither within the
\* other, were intersected to a mask that fixes more than either
C31_Witness ==
    /\ MaskOp("intersect")
    /\ MaskStage(fret.self) = MaskStage(fret.other)
    /\ fret.result # << >>
    /\ fret.result[1] # fret.self
    /\ fret.result[1] # fret.other
    /\ fargs.mask = fret.result[1]

\* two masks of one stage without a common row were intersected, and each
\* bell of one is absent from the other or at another place
IntersectOfDisjoint ==
    /\ MaskOp("intersect")
    /\ MaskStage(fret.self) = MaskStage(fret.other)
    /\ fret.result = << >>
    /\ \A i \in 1 .. Len(fret.self) :
          fret.self[i] = NoBell \/ fret.other[i] = NoBell

\* C32: if m matches s then m * r matches s * r and r * m matches r * s;
\* conversely a row is matched by m * r only if it is s * r for some s
\* matched by m, and by r * m only if it is r * s for some s matched by m
C32_MulMovesMatchedRows ==
    /\ MaskOp("mask_mul_row") =>
          LET m == fret.self
              r == fret.row
          IN  /\ \A s \in RowsOf(Len(r)) :
                    Matches(m, s) => Matches(fret.result, RowMul(s, r))
              /\ \A t \in RowsOf(Len(r)) :
                    Matches(fret.result, t) =>
                        \E s \in RowsOf(Len(r)) : Matches(m, s) /\ t = RowMul(s, r)
    /\ MaskOp("row_mul_mask") =>
          LET m == fret.self
              r == fret.row
          IN  /\ \A s \in RowsOf(Len(r)) :
                    Matches(m, s) => Matches(fret.result, RowMul(r, s))
              /\ \A t \in RowsOf(Len(r)) :
                    Matches(fret.result, t) =>
                        \E s \in RowsOf(Len(r)) : Matches(m, s) /\ t = RowMul(r, s)

\* C32 witness: a mask that fixes one bell and leaves others open was
\* multiplied by a row that moves that bell's place
C32_Witness ==
    /\ MaskOp("mask_mul_row")
    /\ fret.result # fret.self
    /\ \E i \in 1 .. Len(fret.self) : fret.self[i] # NoBell
    /\ \E i, j \in 1 .. Len(fret.self) :
          i # j /\ fret.self[i] = NoBell /\ fret.self[j] = NoBell
    /\ fret.result # RowMulMask(fret.row, fret.self)

\* a row was multiplied by a mask and renamed one of its bells
RowMulMaskRenamed ==
    /\ MaskOp("row_mul_mask")
    /\ fret.result # fret.self
    /\ fret.result # MaskMulRow(fret.self, fret.row)

\* each bell is in the mask at most once
EachBellOnce(mask) ==
    \A i, j \in 1 .. Len(mask) : (mask[i] # NoBell /\ mask[i] = mask[j]) => i = j

SetBellOverwrote ==
    /\ MaskOp("set_bell")
    /\ fret.result = "Ok"
    /\ fret.self[fret.place] \notin { NoBell, fret.bell }
    /\ fargs.mask[fret.place] = fret.bell


\* the last call on the link set was op
LinkSetOp(op) == fpc = "link_set" /\ "op" \in DOMAIN fret /\ fret.op = op

\* the calls of add whose link no retain has removed
LiveAdds == { k \in 1 .. Len(fargs.added) : ~fargs.added[k].removed }

\* C38: across add and retain, every LinkId returned by add differs from
\* every id returned earlier, also after retain removed links; get(id)
\* returns the link added under that id until a retain removes it and None
\* afterwards; len() is the number of links added and not yet removed
C38_LinkIdsUnique ==
    fpc = "link_set" =>
        /\ \A j, k \in 1 .. Len(fargs.added) :
              fargs.added[j].id = fargs.added[k].id => j = k
        /\ \A k \in 1 .. Len(fargs.added) :
              LinkSetGet(fargs.links, fargs.added[k].id) =
                  IF fargs.added[k].removed THEN << >> ELSE << fargs.added[k].link >>
        /\ LinkSetOp("get") =>
              fret.result =
                  IF \E k \in LiveAdds : fargs.added[k].id = fret.id
                  THEN << fargs.added[CHOOSE k \in LiveAdds : fargs.added[k].id = fret.id].link >>
                  ELSE << >>
        /\ LinkSetLen(fargs.links) = Cardinality(LiveAdds)
        /\ LinkSetOp("len") => fret.result = Cardinality(LiveAdds)

\* C38 witness: a link was added after a retain had removed an earlier one
\* and while another was still in the set
C38_Witness ==
    /\ LinkSetOp("add")
    /\ Len(fargs.added) = 3
    /\ fargs.added[1].removed
    /\ ~fargs.added[2].removed
    /\ fargs.added[3].id = fret.result

\* get was asked for the id of a removed link
GetOfRemoved ==
    /\ LinkSetOp("get")
    /\ \E k \in 1 .. Len(fargs.added) : fargs.added[k].removed /\ fargs.added[k].id = fret.id
    /\ fret.result = << >>


\* succ_links or pred_links was the last call on the graph
LinksIterated ==
    /\ fpc = "graph"
    /\ "op" \in DOMAIN fret
    /\ fret.op \in { "succ_links", "pred_links" }

\* a side of a link is the start or end, or a chunk of the graph
SideInGraph(side, gr) == side = StartOrEnd \/ side \in DOMAIN gr.chunks

\* the link of this id is in the link set and its chunks are in the graph
NotDangling(id, gr) ==
    /\ id \in DOMAIN gr.links.map
    /\ SideInGraph(gr.links.map[id].from, gr)
    /\ SideInGraph(gr.links.map[id].to, gr)

\* the ids of a list whose links do not dangle, in the order of the list
IdsNotDangling(ids, gr) ==
    LET Good(id) == NotDangling(id, gr)
    IN  SelectSeq(ids, Good)

\* C34: succ_links and pred_links never yield a dangling link: a link whose
\* id is no longer in the link set or whose endpoint chunk has been removed
\* from the graph is skipped, and every other link id of the chunk's list is
\* yielded
C34_NoDanglingLinkYielded ==
    LinksIterated =>
        [ k \in 1 .. Len(fret.result) |-> fret.result[k][1] ] = IdsNotDangling(fret.ids, fargs)

\* the links yielded are those of the chunk's list whose id is in the link
\* set, in the order of the list
YieldsLinksOfTheSet ==
    LinksIterated =>
        LET InSet(id) == id \in DOMAIN fargs.links.map
            kept == SelectSeq(fret.ids, InSet)
        IN  fret.result = [ k \in 1 .. Len(kept) |-> << kept[k], fargs.links.map[kept[k]] >> ]

\* a link was yielded whose other chunk is not in the graph
YieldedLinkToRemovedChunk ==
    /\ LinksIterated
    /\ \E k \in 1 .. Len(fret.result) : ~NotDangling(fret.result[k][1], fargs)

\* a link id of the list was skipped
SkippedRemovedLink ==
    /\ LinksIterated
    /\ Len(fret.result) < Len(fret.ids)
    /\ Len(fret.result) > 0


\* the step that follows the loop sends one update, a Progress that is not
\* truncating and reports the size of the frontier, and returns
FinalProgressSent ==
    /\ pc' = "returned"
    /\ frontier' = frontier
    /\ Len(updates') = Len(updates) + 1
    /\ SubSeq(updates', 1, Len(updates)) = updates
    /\ updates'[Len(updates')].type = "Progress"
    /\ ~updates'[Len(updates')].truncating_queue
    /\ updates'[Len(updates')].queue_len = Cardinality(frontier)

\* C35: on every exit path of search (frontier exhausted, num_comps
\* reached, abort) exactly one more update is sent after the loop, a
\* Progress with truncating_queue = false whose queue_len is the size of the
\* frontier at exit
C35_OneFinalProgress ==
    [][ /\ pc = "final" => FinalProgressSent
        /\ pc' = "returned" => pc = "final"
        /\ (pc = "loop" /\ pc' # "loop") =>
              /\ pc' = "final"
              /\ \/ frontier = {} /\ UNCHANGED updates
                 \/ last'.broke = "num_comps" /\ updates'[Len(updates')].type = "Comp"
                 \/ last'.broke = "abort" /\ updates'[Len(updates')] = AbortingUpdate
      ]_<< pc, updates >>

\* C35 witness: an aborted run has returned with prefixes left in the
\* frontier, its last two updates being Aborting and the final Progress
C35_Witness ==
    /\ pc = "returned"
    /\ last.broke = "abort"
    /\ Len(updates) >= 2
    /\ updates[Len(updates) - 1] = AbortingUpdate
    /\ updates[Len(updates)].type = "Progress"
    /\ updates[Len(updates)].queue_len = Cardinality(frontier)
    /\ frontier # {}

\* a run has returned after the composition that made num_comps, with
\* prefixes left in the frontier
ReturnedAtNumComps ==
    /\ pc = "returned"
    /\ last.broke = "num_comps"
    /\ updates[Len(updates) - 1].type = "Comp"
    /\ updates[Len(updates)].queue_len = Cardinality(frontier)
    /\ frontier # {}

\* a run has returned from an exhausted frontier
ReturnedExhausted ==
    /\ pc = "returned"
    /\ last.broke = "no"
    /\ frontier = {}
    /\ updates[Len(updates)].type = "Progress"
    /\ updates[Len(updates)].queue_len = 0


\* under a fair worker a search that has left its loop returns
FinalLeadsToReturned == (pc = "final") ~> (pc = "returned")


\* the Comp updates among the first k - 1 updates of a stream
CompsBefore(stream, k) == Cardinality({ j \in 1 .. k - 1 : stream[j].type = "Comp" })

\* C36: in every Progress update, iter_count is the number of prefixes
\* popped and expanded so far and num_comps the number of Comp updates
\* delivered before it, for periodic, truncation and final updates alike
C36_ProgressCounts ==
    [][ \A k \in Len(updates) + 1 .. Len(updates') :
            updates'[k].type = "Progress" =>
                /\ updates'[k].iter_count = pops'
                /\ updates'[k].num_comps = CompsBefore(updates', k)
      ]_updates

\* in every Progress update num_comps is the number of Comp updates before
\* it, and iter_count is the number of prefixes popped or one less
ProgressCountsWithinOne ==
    [][ \A k \in Len(updates) + 1 .. Len(updates') :
            updates'[k].type = "Progress" =>
                /\ updates'[k].iter_count \in { pops' - 1, pops' }
                /\ updates'[k].iter_count = pops' - 1 =>
                      (last'.truncated \/ last'.broke = "num_comps")
                /\ updates'[k].num_comps = CompsBefore(updates', k)
      ]_updates

\* a run that stopped at num_comps has sent its final Progress with an
\* iter_count below the number of prefixes expanded
FinalProgressOneShort ==
    /\ pc = "returned"
    /\ last.broke = "num_comps"
    /\ updates[Len(updates)].type = "Progress"
    /\ updates[Len(updates)].iter_count = pops - 1

\* a periodic Progress update was sent with the number of prefixes expanded
PeriodicProgressExact ==
    /\ pc = "loop"
    /\ Len(updates) > 0
    /\ updates[Len(updates)].type = "Progress"
    /\ ~last.truncated
    /\ updates[Len(updates)].iter_count = pops
    /\ pops > 0


\* run number n of Search::run has been called and has not returned
Running(n) == run_no = n /\ pc \notin { "idle", "returned", "panicked" }

\* C37: an abort request is never lost: a flag set to true at any moment
\* after Search::run has been called (it was false during the run) stays
\* true, so that the worker's next abort poll reads true and the store of
\* false by Search::run does not overwrite it; and a flag that was true
\* before run was called is false when the search starts
C37_AbortNeverLost ==
    /\ \A n \in 1 .. MaxRuns :
          []((Running(n) /\ ~abort_flag) => [](abort_flag => [](run_no = n => abort_flag)))
    /\ [][(pc = "called" /\ pc' # "called") => ~abort_flag']_vars

\* the flag was set while Search::run had been called and had yet to store
\* false
AbortSetBeforeStore == pc = "called" /\ abort_flag /\ updates = << >>

\* once the search has stored false, a flag that is set stays set until
\* the run has returned
AbortKeptAfterStore ==
    [][(abort_flag /\ pc \in { "start", "loop", "final" }) => abort_flag']_vars


\* C39: recursive_compose restores the engine on every return path: when a
\* call returns (composition found, too long, false, or all branches
\* explored), self.nodes and self.calls are what they were when that call
\* was entered
C39_EngineRestored ==
    [][ (fpc = "composing" /\ Len(fret'.stack) < Len(fret.stack)) =>
            /\ fargs'.nodes = TopFrame.entered.nodes
            /\ fargs'.calls = TopFrame.entered.calls
      ]_vars

\* C39 witness: a call below the first one has returned after it had added
\* its node and explored two branches, compositions having been found
C39_Witness ==
    /\ fpc = "composing"
    /\ fret.returned # << >>
    /\ fret.returned[1].why = "explored"
    /\ fret.returned[1].depth >= 1
    /\ fret.returned[1].branches >= 2
    /\ fret.found # << >>
    /\ fargs.nodes = fret.returned[1].entered.nodes
    /\ fargs.calls = fret.returned[1].entered.calls
    /\ fargs.calls # << >>

\* the last call returned because its node was false
ReturnedFalse == fpc = "composing" /\ fret.returned # << >> /\ fret.returned[1].why = "false"

\* the node n2 is false against the node n1 by the table
FalseAgainst(table, n1, n2) ==
    \E k \in 1 .. Len(table.falseness[n1.section]) :
        n2 = Node(Mul(n1.row, table.falseness[n1.section][k][1]),
                  table.falseness[n1.section][k][2])

\* no two of the nodes are false against each other
PairwiseTrue(table, nodes) ==
    \A i, j \in 1 .. Len(nodes) : i # j => ~FalseAgainst(table, nodes[i], nodes[j])

\* the lengths of the first k nodes, added up
NodeLengths(table, nodes, k) ==
    LET sum[i \in 0 .. k] ==
            IF i = 0 THEN 0 ELSE sum[i - 1] + table.length[nodes[i].section]
    IN  sum[k]

\* the compositions printed so far
CompsFound == { fret.found[k] : k \in 1 .. Len(fret.found) }

\* the length of every composition found is that of its nodes before the
\* end node and lies in the inclusive range given to Table::compose
FoundInRange ==
    \A c \in CompsFound :
        /\ c.len = NodeLengths(fargs.table, c.nodes, Len(c.nodes))
        /\ fargs.desired_len.start <= c.len
        /\ c.len <= fargs.desired_len.end - 1

EndNodeTrue ==
    /\ fpc \in { "composing", "composed" }
    /\ \E c \in CompsFound :
          /\ Len(c.nodes) >= 2
          /\ PairwiseTrue(fargs.table, Append(c.nodes, c.end_node))


====
